---- MODULE Spec2Model ----
(***************************************************************************)
(* trace_analyzer: the .asc loader (src/src/parse.rs), the line decoder    *)
(* (src/src/core/line.rs), the date header detector                        *)
(* (src/src/core/abs_time.rs) and the Log store (src/src/types/log.rs).    *)
(*                                                                         *)
(* A line is the sequence of its whitespace-delimited tokens; a token is   *)
(* the sequence of its characters.  Option<T> is a sequence of length 0    *)
(* (None) or 1 (Some).  An f64 timestamp is [nan, us]: not-a-number, or a  *)
(* finite value given in microseconds.                                     *)
(***************************************************************************)
EXTENDS Integers, Sequences, FiniteSets, TLC

\* ------------------------------------------------------------------ bounds
\* number of from_asc_file calls in a run
MaxLoads == 2
\* number of lines the files of a run hold in total
MaxLines == 4
\* number of lines given to the decoder in a run of the decoder alone
MaxDecodeLines == 2
\* number of lines the earlier loader reads in a call
MaxAscLines == 3

\* ------------------------------------------------------------- Option, misc
None == <<>>
Some(v) == <<v>>
IsSome(o) == Len(o) = 1
Unwrap(o) == o[1]

Max(a, b) == IF a >= b THEN a ELSE b

U8_MAX == 255
U16_MAX == 65535

\* A u32 is [hi, lo], its two 16-bit halves: the values of the checker are 32-bit
\* signed integers, which do not hold bit 31.
U32(hi, lo) == [hi |-> hi, lo |-> lo]

\* ------------------------------------------------------------------ tokens
tok_date == <<"d", "a", "t", "e">>
tok_Tue == <<"T", "u", "e">>
tok_Wed == <<"W", "e", "d">>
tok_Aug == <<"A", "u", "g">>
tok_05 == <<"0", "5">>
tok_06 == <<"0", "6">>
tok_time1 == <<"0", "7", ":", "2", "3", ":", "4", "5", ".", "1", "2", "3">>
tok_time2 == <<"0", "8", ":", "0", "0", ":", "0", "0", ".", "0", "0", "0">>
tok_pm == <<"p", "m">>
tok_am == <<"a", "m">>
tok_2025 == <<"2", "0", "2", "5">>
tok_garbage == <<"g", "a", "r", "b", "a", "g", "e">>
tok_1_0 == <<"1", ".", "0">>
tok_2_0 == <<"2", ".", "0">>
tok_NaN == <<"N", "a", "N">>
tok_1 == <<"1">>
tok_2 == <<"2">>
tok_3 == <<"3">>
tok_9 == <<"9">>
tok_100 == <<"1", "0", "0">>
tok_200 == <<"2", "0", "0">>
tok_300 == <<"3", "0", "0">>
tok_Rx == <<"R", "x">>
tok_Tx == <<"T", "x">>
tok_Bogus == <<"B", "o", "g", "u", "s">>
tok_d == <<"d">>
tok_00 == <<"0", "0">>
tok_Sun == <<"S", "u", "n">>
tok_31 == <<"3", "1">>
tok_time3 == <<"1", "1", ":", "5", "9", ":", "5", "9", ".", "5", "0", "0">>
tok_65_5 == <<"6", "5", ".", "5">>
tok_abc == <<"a", "b", "c">>
tok_256 == <<"2", "5", "6">>
tok_zz == <<"z", "z">>
tok_rx == <<"r", "x">>
tok_ECU == <<"E", "C", "U">>
tok_D == <<"D">>
tok_0 == <<"0">>
tok_0A == <<"0", "A">>
tok_0B == <<"0", "B">>
tok_FF == <<"F", "F">>
tok_17334410x == <<"1", "7", "3", "3", "4", "4", "1", "0", "x">>
tok_12AB == <<"1", "2", "A", "B">>
tok_100X == <<"1", "0", "0", "X">>
tok_123456789 == <<"1", "2", "3", "4", "5", "6", "7", "8", "9">>
tok_x == <<"x">>
tok_800 == <<"8", "0", "0">>
tok_900 == <<"9", "0", "0">>

\* ----------------------------------------------------------- std parsers
\* value of a digit in the given radix, -1 when the character is no digit
DigitValue(c, radix) ==
    LET dec == CASE c = "0" -> 0 [] c = "1" -> 1 [] c = "2" -> 2 [] c = "3" -> 3
                 [] c = "4" -> 4 [] c = "5" -> 5 [] c = "6" -> 6 [] c = "7" -> 7
                 [] c = "8" -> 8 [] c = "9" -> 9 [] OTHER -> -1
        hex == CASE c \in {"a", "A"} -> 10 [] c \in {"b", "B"} -> 11
                 [] c \in {"c", "C"} -> 12 [] c \in {"d", "D"} -> 13
                 [] c \in {"e", "E"} -> 14 [] c \in {"f", "F"} -> 15 [] OTHER -> -1
    IN  IF dec >= 0 THEN dec ELSE IF radix = 16 THEN hex ELSE -1

\* one digit more of uN::from_str_radix: -1 once a character is no digit or the
\* value overflows
RadixStep(acc, digit, radix, max) ==
    IF acc < 0 \/ digit < 0 THEN -1
    ELSE IF acc * radix + digit > max THEN -1
    ELSE acc * radix + digit

\* uN::from_str_radix: every character a digit, at least one, no overflow
FromStrRadix(s, radix, max) ==
    LET acc[n \in 0..Len(s)] ==
            IF n = 0 THEN 0 ELSE RadixStep(acc[n - 1], DigitValue(s[n], radix), radix, max)
    IN  IF Len(s) = 0 \/ acc[Len(s)] < 0 THEN None ELSE Some(acc[Len(s)])

\* one digit more of u32::from_str_radix, on the two halves
RadixStepU32(acc, digit, radix) ==
    IF ~IsSome(acc) \/ digit < 0 THEN None
    ELSE IF acc[1].hi * radix + (acc[1].lo * radix + digit) \div 65536 > U16_MAX THEN None
    ELSE Some(U32(acc[1].hi * radix + (acc[1].lo * radix + digit) \div 65536,
                  (acc[1].lo * radix + digit) % 65536))

FromStrRadixU32(s, radix) ==
    LET acc[n \in 0..Len(s)] ==
            IF n = 0 THEN Some(U32(0, 0))
            ELSE RadixStepU32(acc[n - 1], DigitValue(s[n], radix), radix)
    IN  IF Len(s) = 0 THEN None ELSE acc[Len(s)]

\* Ord::cmp on integers, and on u32
CmpInt(a, b) == IF a < b THEN "Less" ELSE IF a > b THEN "Greater" ELSE "Equal"
CmpU32(a, b) == IF a.hi # b.hi THEN CmpInt(a.hi, b.hi) ELSE CmpInt(a.lo, b.lo)

\* str::parse::<f64> on the tokens of the model: "1.0", "2.0", "65.5", "NaN" and the
\* unsigned integer literals (of at most three digits)
NaN == [nan |-> TRUE, us |-> 0]
Finite(us) == [nan |-> FALSE, us |-> us]
ParseF64(tok) ==
    CASE tok = tok_1_0 -> Some(Finite(1000000))
      [] tok = tok_2_0 -> Some(Finite(2000000))
      [] tok = tok_65_5 -> Some(Finite(65500000))
      [] tok = tok_NaN -> Some(NaN)
      [] Len(tok) <= 3 /\ IsSome(FromStrRadix(tok, 10, 999)) ->
            Some(Finite(Unwrap(FromStrRadix(tok, 10, 999)) * 1000000))
      [] OTHER -> None

\* f64::partial_cmp: None when either side is not a number
PartialCmp(lhs, rhs) ==
    IF lhs.nan \/ rhs.nan THEN None
    ELSE IF lhs.us < rhs.us THEN Some("Less")
    ELSE IF lhs.us > rhs.us THEN Some("Greater")
    ELSE Some("Equal")

\* the byte of an ASCII character of the model's strings
Byte(c) ==
    CASE c = " " -> 32 [] c = "." -> 46 [] c = ":" -> 58
      [] DigitValue(c, 10) >= 0 -> 48 + DigitValue(c, 10)
      [] c = "A" -> 65 [] c = "B" -> 66 [] c = "C" -> 67 [] c = "D" -> 68
      [] c = "E" -> 69 [] c = "F" -> 70 [] c = "N" -> 78 [] c = "R" -> 82
      [] c = "T" -> 84 [] c = "X" -> 88 [] c = "a" -> 97 [] c = "c" -> 99
      [] c = "d" -> 100 [] c = "x" -> 120 [] c = "z" -> 122 [] OTHER -> 127

\* str::cmp: lexicographic on bytes
CmpStr(a, b) ==
    LET n == IF Len(a) < Len(b) THEN Len(a) ELSE Len(b)
        diff == {i \in 1..n : a[i] # b[i]}
        first == CHOOSE i \in diff : \A j \in diff : i <= j
    IN  IF diff = {} THEN CmpInt(Len(a), Len(b))
        ELSE CmpInt(Byte(a[first]), Byte(b[first]))

\* ------------------------------------------------------------ formatting
DigitChar(d) ==
    CASE d = 0 -> "0" [] d = 1 -> "1" [] d = 2 -> "2" [] d = 3 -> "3" [] d = 4 -> "4"
      [] d = 5 -> "5" [] d = 6 -> "6" [] d = 7 -> "7" [] d = 8 -> "8" [] d = 9 -> "9"

\* u32::to_string / i32::to_string of a value >= 0
RECURSIVE to_string(_)
to_string(v) == IF v < 10 THEN <<DigitChar(v)>> ELSE to_string(v \div 10) \o <<DigitChar(v % 10)>>

\* format!("{:0w}", v): zero padded to at least w characters
RECURSIVE PadZero(_, _)
PadZero(s, w) == IF Len(s) >= w THEN s ELSE PadZero(<<"0">> \o s, w)

push_2(buf, v) == buf \o <<DigitChar((v \div 10) % 10), DigitChar(v % 10)>>

push_3(buf, v) ==
    buf \o <<DigitChar((v \div 100) % 10), DigitChar((v \div 10) % 10), DigitChar(v % 10)>>

\* (x * 1000.0).round() of a timestamp: half away from zero; NaN stays NaN
RoundMillis(ts) ==
    IF ts.nan THEN NaN
    ELSE IF ts.us >= 0 THEN Finite((ts.us + 500) \div 1000)
    ELSE Finite(-((-ts.us + 500) \div 1000))

\* `as u32` / `as i64` of a float: NaN is 0 and a negative value saturates to 0 as
\* u32 (the timestamps of the model stay far below u32::MAX milliseconds)
AsU32(f) == IF f.nan \/ f.us < 0 THEN 0 ELSE f.us
AsI64(f) == IF f.nan THEN 0 ELSE f.us

\* a formatter that would take the seconds from the whole of the milliseconds
seconds_to_hms_string_whole_seconds(seconds) ==
    LET total_millis == AsU32(RoundMillis(seconds))
        hours == total_millis \div 3600000
        minutes == (total_millis % 3600000) \div 60000
        secs == total_millis \div 1000
        millis == total_millis % 1000
    IN  <<"2", "0", "2", "5", "-", "0", "1", "-", "0", "1", " ">>
        \o PadZero(to_string(hours), 2) \o <<":">> \o PadZero(to_string(minutes), 2)
        \o <<":">> \o PadZero(to_string(secs), 2) \o <<".">> \o PadZero(to_string(millis), 3)

seconds_to_hms_string(seconds) ==
    LET total_millis == AsU32(RoundMillis(seconds))
        hours == total_millis \div 3600000
        minutes == (total_millis % 3600000) \div 60000
        secs == (total_millis % 60000) \div 1000
        millis == total_millis % 1000
    IN  <<"2", "0", "2", "5", "-", "0", "1", "-", "0", "1", " ">>
        \o PadZero(to_string(hours), 2) \o <<":">> \o PadZero(to_string(minutes), 2)
        \o <<":">> \o PadZero(to_string(secs), 2) \o <<".">> \o PadZero(to_string(millis), 3)

\* chrono::NaiveDateTime as [year, month, day, ms]: a date and the millisecond of the day
DaysInMonth(y, m) ==
    IF m = 2 THEN (IF y % 4 = 0 /\ (y % 100 # 0 \/ y % 400 = 0) THEN 29 ELSE 28)
    ELSE IF m \in {4, 6, 9, 11} THEN 30 ELSE 31

NextDay(dt) ==
    IF dt.day < DaysInMonth(dt.year, dt.month) THEN [dt EXCEPT !.day = dt.day + 1]
    ELSE IF dt.month < 12 THEN [dt EXCEPT !.day = 1, !.month = dt.month + 1]
    ELSE [dt EXCEPT !.day = 1, !.month = 1, !.year = dt.year + 1]

\* start_time + Duration::milliseconds(delta_ms), delta_ms >= 0
RECURSIVE AddMillis(_, _)
AddMillis(dt, delta_ms) ==
    IF dt.ms + delta_ms < 86400000 THEN [dt EXCEPT !.ms = dt.ms + delta_ms]
    ELSE AddMillis(NextDay([dt EXCEPT !.ms = 0]), dt.ms + delta_ms - 86400000)

format_datetime_ymdhms_millis(dt) ==
    LET hour == dt.ms \div 3600000
        minute == (dt.ms % 3600000) \div 60000
        second == (dt.ms % 60000) \div 1000
        millis == dt.ms % 1000
        b1 == push_2(to_string(dt.year) \o <<"-">>, dt.month)
        b2 == push_2(b1 \o <<"-">>, dt.day)
        b3 == push_2(b2 \o <<" ">>, hour)
        b4 == push_2(b3 \o <<":">>, minute)
        b5 == push_2(b4 \o <<":">>, second)
    IN  push_3(b5 \o <<".">>, millis)

\* --------------------------------------------------------- date header
\* [T]::join(" ") of the tokens
RECURSIVE Join(_)
Join(toks) ==
    IF Len(toks) = 0 THEN <<>>
    ELSE IF Len(toks) = 1 THEN toks[1]
    ELSE toks[1] \o <<" ">> \o Join(Tail(toks))

DateTokens1 == <<tok_Tue, tok_Aug, tok_05, tok_time1, tok_pm, tok_2025>>
DateTokens2 == <<tok_Wed, tok_Aug, tok_06, tok_time2, tok_am, tok_2025>>
DateTokens3 == <<tok_Sun, tok_Aug, tok_31, tok_time3, tok_pm, tok_2025>>

\* NaiveDateTime::parse_from_str(s, "%a %b %d %I:%M:%S%.3f %P %Y") on the date
\* strings of the model
ParseDateTime(s) ==
    CASE s = Join(DateTokens1) ->
            Some([year |-> 2025, month |-> 8, day |-> 5, ms |-> 69825123])
      [] s = Join(DateTokens2) ->
            Some([year |-> 2025, month |-> 8, day |-> 6, ms |-> 28800000])
      [] s = Join(DateTokens3) ->
            Some([year |-> 2025, month |-> 8, day |-> 31, ms |-> 86399500])
      [] OTHER -> None

\* AbsoluteTime::default()
AbsoluteTimeDefault == [text |-> <<>>, value |-> None]

\* the AbsoluteTime of a date string that parses
AbsoluteTimeOf(date_str, naive_dt) ==
    IF IsSome(naive_dt) THEN Some([text |-> date_str, value |-> naive_dt]) ELSE None

DateTimeOf(date_str) == AbsoluteTimeOf(date_str, ParseDateTime(date_str))

\* core::abs_time::from_line: Option<AbsoluteTime>
from_line(ln) ==
    IF Len(ln) = 0 \/ ln[1] # tok_date THEN None ELSE DateTimeOf(Join(Tail(ln)))

\* ------------------------------------------------- signal database (dbc_editor)
\* MessageKey::default(), NodeKey::default(): the null key, which resolves to nothing
NullKey == 0

\* The database bound to channel 1: message 0x100 "B" (comment "c", sender node "N",
\* one signal), message 0x200 "A" (no comment, no sender node, no signal) and the
\* extended message "C", registered with bit 31 set under 0x80000300 and 0x80000800.
Db1 ==
    [ msg_key_by_id |-> (U32(0, 256) :> 1) @@ (U32(0, 512) :> 2)
                        @@ (U32(32768, 768) :> 3) @@ (U32(32768, 2048) :> 3),
      messages |-> (1 :> [name |-> <<"B">>, comment |-> <<"c">>,
                          sender_nodes |-> <<1>>, signals |-> <<1>>])
                @@ (2 :> [name |-> <<"A">>, comment |-> <<>>,
                          sender_nodes |-> <<>>, signals |-> <<>>])
                @@ (3 :> [name |-> <<"C">>, comment |-> <<>>,
                          sender_nodes |-> <<>>, signals |-> <<1>>]),
      nodes |-> (1 :> [name |-> <<"N">>]),
      sigs |-> (1 :> [factor |-> 2, offset |-> 1, raws |-> <<>>, values |-> <<>>]) ]

get_msg_key_by_id(db, id) ==
    IF id \in DOMAIN db.msg_key_by_id THEN Some(db.msg_key_by_id[id]) ELSE None

get_message_by_key(db, key) ==
    IF key \in DOMAIN db.messages THEN Some(db.messages[key]) ELSE None

get_node_by_key(db, key) ==
    IF key \in DOMAIN db.nodes THEN Some(db.nodes[key]) ELSE None

\* SignalDBC::extract_raw_i64 for the one signal layout of the model: the first byte
extract_raw_i64(payload_bytes) == IF Len(payload_bytes) = 0 THEN 0 ELSE payload_bytes[1]

\* ------------------------------------------------------------ channel_map
\* the bindings the caller sets before loading: channel 1 is Can with a database,
\* channel 2 is Ethernet, channel 3 is Can without a database
ChannelMapInit ==
    (1 :> [number |-> 1, tipo |-> "Can", database |-> Some(Db1)])
    @@ (2 :> [number |-> 2, tipo |-> "Ethernet", database |-> None])
    @@ (3 :> [number |-> 3, tipo |-> "Can", database |-> None])

\* Log::get_database_by_channel, on a channel_map
get_database_by_channel(cm, ch) ==
    IF ch \in DOMAIN cm THEN cm[ch].database ELSE None

\* ------------------------------------------------- frame arena (slotmap::SlotMap)
\* A slot is [version, value, next_free]; it is occupied when its version is odd.
\* Slot 0 of the crate is a sentinel: the slots here are those from index 1 on.
SlotMapDefault == [slots |-> <<>>, free_head |-> 1, num_elems |-> 0]

Occupied(slot) == slot.version % 2 = 1

\* SlotMap::insert: the map after the insertion and the key it returns
sm_insert(sm, value) ==
    IF sm.free_head \in 1..Len(sm.slots)
    THEN LET slot == sm.slots[sm.free_head]
             occupied_version == slot.version + 1
         IN  [ sm |-> [ slots |-> [sm.slots EXCEPT ![sm.free_head] =
                                      [version |-> occupied_version, value |-> Some(value),
                                       next_free |-> 0]],
                        free_head |-> slot.next_free,
                        num_elems |-> sm.num_elems + 1 ],
               key |-> [idx |-> sm.free_head, version |-> occupied_version] ]
    ELSE LET idx == Len(sm.slots) + 1
         IN  [ sm |-> [ slots |-> Append(sm.slots,
                                      [version |-> 1, value |-> Some(value), next_free |-> 0]),
                        free_head |-> idx + 1,
                        num_elems |-> sm.num_elems + 1 ],
               key |-> [idx |-> idx, version |-> 1] ]

\* SlotMap::get
sm_get(sm, key) ==
    IF key.idx \in 1..Len(sm.slots) /\ sm.slots[key.idx].version = key.version
    THEN sm.slots[key.idx].value
    ELSE None

\* SlotMap::remove_from_slot: the slot is freed, its version bumped, and it becomes
\* the head of the free list
remove_from_slot(sm, idx) ==
    [ slots |-> [sm.slots EXCEPT ![idx] = [version |-> @.version + 1, value |-> None,
                                           next_free |-> sm.free_head]],
      free_head |-> idx,
      num_elems |-> sm.num_elems - 1 ]

\* one turn of Drain::next
DrainStep(sm, idx) == IF Occupied(sm.slots[idx]) THEN remove_from_slot(sm, idx) ELSE sm

\* SlotMap::clear (drain): every occupied slot is removed, in index order
sm_clear(sm) ==
    LET st[n \in 0..Len(sm.slots)] == IF n = 0 THEN sm ELSE DrainStep(st[n - 1], n)
    IN  st[Len(sm.slots)]

\* the keys of the frames in the arena
sm_keys(sm) ==
    {[idx |-> i, version |-> sm.slots[i].version] : i \in {j \in 1..Len(sm.slots) : Occupied(sm.slots[j])}}

\* ------------------------------------------------------------------- Frame
FrameDefault ==
    [ absolute_time |-> <<>>, timestamp |-> Finite(0), channel |-> 0, ftype |-> "Can",
      direction |-> "Rx", msg_key |-> NullKey, id |-> U32(0, 0), id_hex |-> <<>>,
      byte_length |-> 0, tx_node_key |-> NullKey, sig_keys |-> <<>>, data |-> <<>> ]

\* -------------------------------------------------------------- LineParser
MAX_CAN_PAYLOAD == 64
CAN_STD_MAX_ID == 2047
\* CAN_EFF_FLAG = 0x8000_0000 is bit 15 of the high half
CAN_EFF_FLAG_HI == 32768

RECURSIVE NextPowerOfTwo(_)
NextPowerOfTwo(n) == IF n <= 1 THEN 1 ELSE 2 * NextPowerOfTwo((n + 1) \div 2)

\* String::reserve / push / push_str on [s, cap]: Vec<u8> grows to
\* max(8, 2 * cap, len + additional) when the spare capacity is too small
StrReserve(buf, additional) ==
    IF buf.cap - Len(buf.s) >= additional THEN buf
    ELSE [buf EXCEPT !.cap = Max(8, Max(2 * buf.cap, Len(buf.s) + additional))]

StrPush(buf, chars) == [StrReserve(buf, Len(chars)) EXCEPT !.s = buf.s \o chars]

\* SmallVec::reserve / push on [v, cap]: grows to the next power of two
VecReserve(buf, additional) ==
    IF buf.cap - Len(buf.v) >= additional THEN buf
    ELSE [buf EXCEPT !.cap = NextPowerOfTwo(Len(buf.v) + additional)]

VecPush(buf, byte) == [VecReserve(buf, 1) EXCEPT !.v = buf.v \o <<byte>>]

\* LineParser::new
LineParserNew ==
    [ data_buf |-> [s |-> <<>>, cap |-> 24],
      payload_buf |-> [v |-> <<>>, cap |-> MAX_CAN_PAYLOAD] ]

\* str::trim_end_matches(['x', 'X'])
RECURSIVE TrimEndX(_)
TrimEndX(s) ==
    IF Len(s) > 0 /\ s[Len(s)] \in {"x", "X"} THEN TrimEndX(SubSeq(s, 1, Len(s) - 1)) ELSE s

\* str::strip_prefix("0x").or_else(strip_prefix("0X")), the string itself otherwise
StripHexPrefix(s) ==
    IF Len(s) >= 2 /\ s[1] = "0" /\ s[2] \in {"x", "X"} THEN SubSeq(s, 3, Len(s)) ELSE s

\* an id decoder that stores the extended-id marker as bit 31
parse_id_u32_flagged(id_token) ==
    LET s == StripHexPrefix(TrimEndX(id_token))
        hex == FromStrRadixU32(s, 16)
        id == IF IsSome(hex) THEN hex ELSE FromStrRadixU32(s, 10)
    IN  IF IsSome(id) /\ s # id_token /\ id[1].hi < CAN_EFF_FLAG_HI
        THEN Some(U32(id[1].hi + CAN_EFF_FLAG_HI, id[1].lo))
        ELSE id

parse_id_u32(id_token) ==
    LET s == StripHexPrefix(TrimEndX(id_token))
        hex == FromStrRadixU32(s, 16)
    IN  IF IsSome(hex) THEN hex ELSE FromStrRadixU32(s, 10)

\* a resolution that retries with bit 31 whatever the id
resolve_msg_key_for_id_any(dbc, id) ==
    IF IsSome(get_msg_key_by_id(dbc, id)) THEN get_msg_key_by_id(dbc, id)
    ELSE get_msg_key_by_id(dbc, IF id.hi >= CAN_EFF_FLAG_HI THEN id
                                ELSE U32(id.hi + CAN_EFF_FLAG_HI, id.lo))

resolve_msg_key_for_id(dbc, id) ==
    IF IsSome(get_msg_key_by_id(dbc, id)) THEN get_msg_key_by_id(dbc, id)
    ELSE IF id.hi > 0 \/ id.lo > CAN_STD_MAX_ID
    THEN get_msg_key_by_id(dbc, IF id.hi >= CAN_EFF_FLAG_HI THEN id
                                ELSE U32(id.hi + CAN_EFF_FLAG_HI, id.lo))
    ELSE None

\* the buffers before the payload loop (line.rs 126-137)
PayloadBuffers(buf, payload_len, needed_chars) ==
    [ data_buf |-> IF buf.data_buf.cap < needed_chars
                   THEN StrReserve([s |-> <<>>, cap |-> buf.data_buf.cap],
                                   needed_chars - buf.data_buf.cap)
                   ELSE [s |-> <<>>, cap |-> buf.data_buf.cap],
      payload_buf |-> IF buf.payload_buf.cap < payload_len
                      THEN VecReserve([v |-> <<>>, cap |-> buf.payload_buf.cap],
                                      payload_len - buf.payload_buf.cap)
                      ELSE [v |-> <<>>, cap |-> buf.payload_buf.cap],
      ok |-> TRUE ]

\* one token pushed to data_buf, after a space when it is not the first (line.rs 144-147)
PushToken(data_buf, i, tok) ==
    StrPush(IF i # 1 THEN StrPush(data_buf, <<" ">>) ELSE data_buf, tok)

\* the byte of the token pushed to payload_buf, or the return (line.rs 149-153)
PushByte(prev, data_buf, byte) ==
    IF IsSome(byte)
    THEN [data_buf |-> data_buf, payload_buf |-> VecPush(prev.payload_buf, byte[1]),
          ok |-> TRUE]
    ELSE [data_buf |-> data_buf, payload_buf |-> prev.payload_buf, ok |-> FALSE]

\* a payload loop that goes on when the line has no token left
PayloadStep_short_read(prev, toks, i) ==
    IF ~prev.ok \/ i > Len(toks) THEN prev
    ELSE PushByte(prev, PushToken(prev.data_buf, i, toks[i]),
                  FromStrRadix(toks[i], 16, U8_MAX))

\* turn i (from 1) of the payload loop (line.rs 139-154)
PayloadStep(prev, toks, i) ==
    IF ~prev.ok THEN prev
    ELSE IF i > Len(toks) THEN [prev EXCEPT !.ok = FALSE]
    ELSE PushByte(prev, PushToken(prev.data_buf, i, toks[i]),
                  FromStrRadix(toks[i], 16, U8_MAX))

\* The payload loop of LineParser::parse (line.rs 126-154) over the tokens that follow
\* the length token: the buffers after it, and whether all payload_len bytes were read.
PayloadLoop(self, toks, payload_len) ==
    LET n == IF payload_len <= Len(toks) THEN payload_len ELSE Len(toks) + 1
        st[i \in 0..n] ==
            IF i = 0 THEN PayloadBuffers(self, payload_len, payload_len * 3)
            ELSE PayloadStep(st[i - 1], toks, i)
    IN  st[n]

\* the frame's absolute_time (line.rs 159-165)
FrameAbsoluteTime(abs, timestamp) ==
    IF IsSome(abs.value)
    THEN format_datetime_ymdhms_millis(
             AddMillis(Unwrap(abs.value), AsI64(RoundMillis(timestamp))))
    ELSE seconds_to_hms_string(timestamp)

\* the frame with the message it resolves to (line.rs 172-176)
WithMessage(frame, msg_key, msg) ==
    IF IsSome(msg)
    THEN [frame EXCEPT !.msg_key = msg_key[1],
                       !.tx_node_key = IF Len(msg[1].sender_nodes) > 0
                                       THEN msg[1].sender_nodes[1] ELSE @,
                       !.sig_keys = msg[1].signals]
    ELSE frame

ResolveIn(frame, dbc, msg_key) ==
    WithMessage(frame, msg_key,
                IF IsSome(msg_key) THEN get_message_by_key(dbc[1], msg_key[1]) ELSE None)

\* the message, sender node and signal keys of a decoded frame (line.rs 168-177)
Resolve(frame, dbc) ==
    ResolveIn(frame, dbc, IF IsSome(dbc) THEN resolve_msg_key_for_id(dbc[1], frame.id) ELSE None)

\* the points one frame appends to a signal (line.rs 181-189): one per occurrence of
\* the signal's key in sig_keys
SignalAfter(sig, k, frame, raw) ==
    LET hits == Cardinality({i \in 1..Len(frame.sig_keys) : frame.sig_keys[i] = k})
    IN  [sig EXCEPT !.raws = @ \o [i \in 1..hits |-> <<frame.timestamp, raw>>],
                    !.values = @ \o [i \in 1..hits |->
                                       <<frame.timestamp, raw * sig.factor + sig.offset>>]]

\* the channel_map after the signals of the frame got their points (line.rs 179-191)
AppendSignals(cm, frame, payload_bytes) ==
    IF ~IsSome(get_database_by_channel(cm, frame.channel)) THEN cm
    ELSE [cm EXCEPT ![frame.channel].database[1].sigs =
            [k \in DOMAIN @ |-> SignalAfter(@[k], k, frame, extract_raw_i64(payload_bytes))]]

\* the position of the first "d" / "D" token at or after position from, 0 if none
DataMarker(ln, from) ==
    LET marks == {i \in from..Len(ln) : ln[i] \in {<<"d">>, <<"D">>}}
    IN  IF marks = {} THEN 0 ELSE CHOOSE i \in marks : \A j \in marks : i <= j

\* LineParser::parse returns without inserting a frame
Dropped(self, cm) == [self |-> self, cm |-> cm, ins |-> None]

\* a decoder that drops the line where it is to insert an ErrorFrame
Error_dropped(self, cm, frame) == Dropped(self, cm)

\* LineParser::parse inserts the frame as an ErrorFrame and returns
Error(self, cm, frame) ==
    [self |-> self, cm |-> cm, ins |-> Some([frame EXCEPT !.ftype = "ErrorFrame"])]

\* the decoded frame is inserted (line.rs 156, 179-195).  mem::swap(&mut frame.data,
\* &mut self.data_buf) leaves the parser the frame's empty String, of capacity 0.
Decoded(cm, loop, frame) ==
    [ self |-> [data_buf |-> [s |-> <<>>, cap |-> 0], payload_buf |-> loop.payload_buf],
      cm |-> AppendSignals(cm, frame, loop.payload_buf.v),
      ins |-> Some(frame) ]

\* after the payload loop (line.rs 139-177)
ParseDecode(cm, abs, frame, loop) ==
    IF ~loop.ok
    THEN [self |-> [data_buf |-> loop.data_buf, payload_buf |-> loop.payload_buf],
          cm |-> cm, ins |-> None]
    ELSE Decoded(cm, loop,
                 Resolve([frame EXCEPT !.data = loop.data_buf.s,
                                       !.absolute_time = FrameAbsoluteTime(abs, frame.timestamp)],
                         get_database_by_channel(cm, frame.channel)))

\* the byte length and the payload (line.rs 114-154)
ParseLength(self, ln, cm, abs, frame, mark, byte_length) ==
    IF ~IsSome(byte_length) THEN Error(self, cm, frame)
    ELSE ParseDecode(cm, abs, [frame EXCEPT !.byte_length = byte_length[1]],
                     PayloadLoop(self, SubSeq(ln, mark + 2, Len(ln)), byte_length[1]))

\* the scan for the data marker (line.rs 105-112): after_d is the token after it
ParseMarker(self, ln, cm, abs, frame, mark) ==
    ParseLength(self, ln, cm, abs, frame, mark,
                IF mark # 0 /\ mark < Len(ln) THEN FromStrRadix(ln[mark + 1], 10, U16_MAX)
                ELSE None)

\* the id and the direction (line.rs 76-103)
ParseDirection(self, ln, cm, abs, frame, id) ==
    IF ~IsSome(id) THEN Dropped(self, cm)
    ELSE IF Len(ln) < 4 \/ ln[4] \notin {tok_Tx, tok_Rx}
    THEN Error(self, cm, [frame EXCEPT !.id = id[1], !.id_hex = ln[3]])
    ELSE ParseMarker(self, ln, cm, abs,
                     [frame EXCEPT !.id = id[1], !.id_hex = ln[3],
                                   !.direction = IF ln[4] = tok_Tx THEN "Tx" ELSE "Rx"],
                     DataMarker(ln, 5))

\* the Can block (line.rs 65-196)
ParseCan(self, ln, cm, abs, frame) ==
    IF Len(ln) < 3 THEN Error(self, cm, frame)
    ELSE ParseDirection(self, ln, cm, abs, frame, parse_id_u32(ln[3]))

\* a decoder that takes a channel channel_map does not hold for a Can channel
ParseChannel_unbound(self, ln, cm, abs, timestamp, channel) ==
    IF ~IsSome(timestamp) \/ ~IsSome(channel) THEN Dropped(self, cm)
    ELSE IF channel[1] \in DOMAIN cm /\ cm[channel[1]].tipo # "Can" THEN Dropped(self, cm)
    ELSE ParseCan(self, ln, cm, abs,
                  [FrameDefault EXCEPT !.timestamp = timestamp[1], !.channel = channel[1]])

\* the timestamp and the channel (line.rs 34-62).  On an Ethernet channel the frame is
\* tagged Eth, the Can block is skipped and the function ends without inserting it
\* (line.rs 59, 65, 196-197).
ParseChannel(self, ln, cm, abs, timestamp, channel) ==
    IF ~IsSome(timestamp) \/ ~IsSome(channel) THEN Dropped(self, cm)
    ELSE IF channel[1] \notin DOMAIN cm THEN Dropped(self, cm)
    ELSE IF cm[channel[1]].tipo # "Can" THEN Dropped(self, cm)
    ELSE ParseCan(self, ln, cm, abs,
                  [FrameDefault EXCEPT !.timestamp = timestamp[1], !.channel = channel[1]])

\* LineParser::parse on the tokens of a line: the parser after the call, the
\* channel_map after the call, and the frame it inserts (None when it inserts none)
parse(self, ln, cm, abs) ==
    ParseChannel(self, ln, cm, abs,
                 IF Len(ln) >= 1 THEN ParseF64(ln[1]) ELSE None,
                 IF Len(ln) >= 2 THEN FromStrRadix(ln[2], 10, U8_MAX) ELSE None)

\* ------------------------------------------------------------------- state
VARIABLES
    \* Log (types/log.rs)
    channel_map, absolute_time, frames,
    frame_by_file_order, frame_by_timestamp, frame_by_channel, frame_by_direction,
    frame_by_can_msg_name, frame_by_can_msg_id, frame_by_can_dlc, frame_by_can_protocol,
    frame_by_can_sender_node, frame_by_can_data, frame_by_can_comment,
    id_chn_by_timestamp, id_chn_by_channel, id_chn_by_direction,
    id_chn_by_can_msg_name, id_chn_by_can_msg_id, id_chn_by_can_dlc,
    id_chn_by_can_protocol, id_chn_by_can_sender_node, id_chn_by_can_data,
    id_chn_by_can_comment,
    \* from_asc_file (parse.rs): where the call is, its found_abs_time, the line
    \* decoder it uses, and what the last call returned
    pc, found_abs_time, parser, result,
    \* the lines the current call has read so far, and the file and the index vectors
    \* of the last call that returned Ok
    file, prev,
    \* the calls made and the lines read in the run
    nloads, nlines

\* the call of the earlier loader asc::parse::from_file (asc/parse.rs): where it is,
\* its CanLog, its two temporary maps, its found_abs_time, the lines it has read, and
\* what the last call returned
VARIABLES
    asc_pc, log, latest_by_id_channel, chart_by_key, asc_found_abs_time, asc_nlines,
    asc_result

ascVars ==
    <<asc_pc, log, latest_by_id_channel, chart_by_key, asc_found_abs_time, asc_nlines,
      asc_result>>

genericVecs == <<frame_by_timestamp, frame_by_channel, frame_by_direction>>

canVecs ==
    <<frame_by_can_msg_name, frame_by_can_msg_id, frame_by_can_dlc, frame_by_can_protocol,
      frame_by_can_sender_node, frame_by_can_data, frame_by_can_comment>>

idChnVecs ==
    <<id_chn_by_timestamp, id_chn_by_channel, id_chn_by_direction,
      id_chn_by_can_msg_name, id_chn_by_can_msg_id, id_chn_by_can_dlc,
      id_chn_by_can_protocol, id_chn_by_can_sender_node, id_chn_by_can_data,
      id_chn_by_can_comment>>

\* the 20 sorted index vectors, and all 21
sortedVecs == genericVecs \o canVecs \o idChnVecs
indexVecs == <<frame_by_file_order>> \o sortedVecs

vars ==
    <<channel_map, absolute_time, frames, frame_by_file_order, genericVecs, canVecs,
      idChnVecs, pc, found_abs_time, parser, result, file, prev, nloads, nlines, ascVars>>

\* ----------------------------------------------------------- index builder
\* usize::MAX, as the largest integer of the checker
USIZE_MAX == 2147483647

\* slice::sort_by for a slice of at most 20 keys: the insertion sort of the standard
\* library, which moves a key left while cmp(key, left neighbour) is Less.  ord maps
\* a pair of keys to the Ordering the comparison closure returns.
InsertTail(sorted, k, ord) ==
    LET stay == {i \in 1..Len(sorted) : ord[<<k, sorted[i]>>] # "Less"}
        j == IF stay = {} THEN 0 ELSE CHOOSE i \in stay : \A h \in stay : h <= i
    IN  SubSeq(sorted, 1, j) \o <<k>> \o SubSeq(sorted, j + 1, Len(sorted))

sort_by(vec, ord) ==
    LET st[n \in 0..Len(vec)] ==
            IF n = 0 THEN <<>> ELSE InsertTail(st[n - 1], vec[n], ord)
    IN  st[Len(vec)]

Range(seq) == {seq[i] : i \in 1..Len(seq)}

\* the pairs of keys a sort of vec may compare
Pairs(vec) == Range(vec) \X Range(vec)

\* `first.then(second)` written as the nested ifs of the closures
Then(first, second) == IF first = "Equal" THEN second ELSE first

\* cmp_f64 (parse.rs 69)
cmp_f64(lhs, rhs) ==
    IF IsSome(PartialCmp(lhs, rhs)) THEN Unwrap(PartialCmp(lhs, rhs)) ELSE "Equal"

\* key_position (parse.rs 62-70): the position in base_keys, usize::MAX for a key
\* that is not in it; positions count from 0
key_position(key) ==
    LET at == {i \in 1..Len(frame_by_file_order) : frame_by_file_order[i] = key}
    IN  IF at = {} THEN USIZE_MAX ELSE (CHOOSE i \in at : \A j \in at : j <= i) - 1

\* fallback_cmp as it would be with the keys themselves compared (FrameKey is Ord: slot
\* index, then version) in place of their positions in the file
fallback_cmp_by_key(lhs, rhs) ==
    Then(CmpInt(lhs.idx, rhs.idx), CmpInt(lhs.version, rhs.version))

\* fallback_cmp (parse.rs 71-72)
fallback_cmp(lhs, rhs) == CmpInt(key_position(lhs), key_position(rhs))

\* `if ord == Equal { fallback_cmp(a, b) } else { ord }`
OrElseFallback(ord, a, b) == IF ord = "Equal" THEN fallback_cmp(a, b) ELSE ord

\* the frames of both keys, when both resolve
BothSome(a, b) == IsSome(sm_get(frames, a)) /\ IsSome(sm_get(frames, b))
Fr(k) == Unwrap(sm_get(frames, k))

by_timestamp(a, b) ==
    IF BothSome(a, b)
    THEN OrElseFallback(cmp_f64(Fr(a).timestamp, Fr(b).timestamp), a, b)
    ELSE fallback_cmp(a, b)

by_channel(a, b) ==
    IF BothSome(a, b)
    THEN OrElseFallback(Then(CmpInt(Fr(a).channel, Fr(b).channel),
                             cmp_f64(Fr(a).timestamp, Fr(b).timestamp)), a, b)
    ELSE fallback_cmp(a, b)

rank(dir) == IF dir = "Rx" THEN 0 ELSE 1

by_direction(a, b) ==
    IF BothSome(a, b)
    THEN OrElseFallback(Then(CmpInt(rank(Fr(a).direction), rank(Fr(b).direction)),
                             cmp_f64(Fr(a).timestamp, Fr(b).timestamp)), a, b)
    ELSE fallback_cmp(a, b)

\* channel_map.get(channel).and_then(database).and_then(get_message_by_key(msg_key))
MessageOf(f) ==
    LET db == get_database_by_channel(channel_map, f.channel)
    IN  IF IsSome(db) THEN get_message_by_key(Unwrap(db), f.msg_key) ELSE None

NodeOf(f) ==
    LET db == get_database_by_channel(channel_map, f.channel)
    IN  IF IsSome(db) THEN get_node_by_key(Unwrap(db), f.tx_node_key) ELSE None

\* msg_name as it would be with a frame that resolves to no message ranked after every
\* name, "~" being greater than every name of the database
msg_name_inferior(f) == IF IsSome(MessageOf(f)) THEN Unwrap(MessageOf(f)).name ELSE <<"~">>

\* .map(|msg| msg.name.as_str()).unwrap_or(""), and the like
msg_name(f) == IF IsSome(MessageOf(f)) THEN Unwrap(MessageOf(f)).name ELSE <<>>
node_name(f) == IF IsSome(NodeOf(f)) THEN Unwrap(NodeOf(f)).name ELSE <<>>
msg_comment(f) == IF IsSome(MessageOf(f)) THEN Unwrap(MessageOf(f)).comment ELSE <<>>

by_can_msg_name(a, b) ==
    IF BothSome(a, b)
    THEN OrElseFallback(CmpStr(msg_name(Fr(a)), msg_name(Fr(b))), a, b)
    ELSE fallback_cmp(a, b)

by_can_msg_id(a, b) ==
    IF BothSome(a, b)
    THEN OrElseFallback(CmpU32(Fr(a).id, Fr(b).id), a, b)
    ELSE fallback_cmp(a, b)

by_can_dlc(a, b) ==
    IF BothSome(a, b)
    THEN OrElseFallback(CmpInt(Fr(a).byte_length, Fr(b).byte_length), a, b)
    ELSE fallback_cmp(a, b)

\* a rank that would put the frames of more than 8 bytes first
protocol_rank_long_first(frame) == IF frame.byte_length <= 8 THEN 1 ELSE 0

\* protocol_rank of sort_by_can_protocol (parse.rs 201)
protocol_rank(frame) == IF frame.byte_length <= 8 THEN 0 ELSE 1

by_can_protocol(a, b) ==
    IF BothSome(a, b)
    THEN OrElseFallback(Then(CmpInt(protocol_rank(Fr(a)), protocol_rank(Fr(b))),
                             CmpInt(Fr(a).byte_length, Fr(b).byte_length)), a, b)
    ELSE fallback_cmp(a, b)

by_can_sender_node(a, b) ==
    IF BothSome(a, b)
    THEN OrElseFallback(CmpStr(node_name(Fr(a)), node_name(Fr(b))), a, b)
    ELSE fallback_cmp(a, b)

by_can_data(a, b) ==
    IF BothSome(a, b)
    THEN OrElseFallback(CmpStr(Fr(a).data, Fr(b).data), a, b)
    ELSE fallback_cmp(a, b)

by_can_comment(a, b) ==
    IF BothSome(a, b)
    THEN OrElseFallback(CmpStr(msg_comment(Fr(a)), msg_comment(Fr(b))), a, b)
    ELSE fallback_cmp(a, b)

sort_by_timestamp(vec) == sort_by(vec, [p \in Pairs(vec) |-> by_timestamp(p[1], p[2])])
sort_by_channel(vec) == sort_by(vec, [p \in Pairs(vec) |-> by_channel(p[1], p[2])])
sort_by_direction(vec) == sort_by(vec, [p \in Pairs(vec) |-> by_direction(p[1], p[2])])
sort_by_can_msg_name(vec) == sort_by(vec, [p \in Pairs(vec) |-> by_can_msg_name(p[1], p[2])])
sort_by_can_msg_id(vec) == sort_by(vec, [p \in Pairs(vec) |-> by_can_msg_id(p[1], p[2])])
sort_by_can_dlc(vec) == sort_by(vec, [p \in Pairs(vec) |-> by_can_dlc(p[1], p[2])])
sort_by_can_protocol(vec) == sort_by(vec, [p \in Pairs(vec) |-> by_can_protocol(p[1], p[2])])
sort_by_can_sender_node(vec) == sort_by(vec, [p \in Pairs(vec) |-> by_can_sender_node(p[1], p[2])])
sort_by_can_data(vec) == sort_by(vec, [p \in Pairs(vec) |-> by_can_data(p[1], p[2])])
sort_by_can_comment(vec) == sort_by(vec, [p \in Pairs(vec) |-> by_can_comment(p[1], p[2])])

IsCan(key) == IsSome(sm_get(frames, key)) /\ Fr(key).ftype = "Can"

\* last_by_id_channel as it would be keeping, for a pair, the key of the frame with the
\* largest timestamp (the first of them in the file)
last_by_id_channel_max_timestamp(base_keys) ==
    LET pair(k) == <<Fr(k).id, Fr(k).channel>>
        cans == {i \in 1..Len(base_keys) : IsCan(base_keys[i])}
        pairs == {pair(base_keys[i]) : i \in cans}
        best(p) == CHOOSE i \in cans :
                       /\ pair(base_keys[i]) = p
                       /\ \A j \in cans : pair(base_keys[j]) = p =>
                              \/ cmp_f64(Fr(base_keys[j]).timestamp, Fr(base_keys[i]).timestamp) = "Less"
                              \/ /\ cmp_f64(Fr(base_keys[j]).timestamp, Fr(base_keys[i]).timestamp) = "Equal"
                                 /\ i <= j
    IN  [p \in pairs |-> base_keys[best(p)]]

\* last_by_id_channel (parse.rs 78-85): the map after the loop over base_keys, as the
\* function from the (id, channel) pairs inserted to the key each holds
last_by_id_channel(base_keys) ==
    LET pair(k) == <<Fr(k).id, Fr(k).channel>>
        cans == {i \in 1..Len(base_keys) : IsCan(base_keys[i])}
        pairs == {pair(base_keys[i]) : i \in cans}
        last(p) == CHOOSE i \in cans : /\ pair(base_keys[i]) = p
                                       /\ \A j \in cans : pair(base_keys[j]) = p => j <= i
    IN  [p \in pairs |-> base_keys[last(p)]]

\* id_chn_keys (parse.rs 86-87): the values of the map, in the arbitrary order of a
\* HashMap, sorted by position in the file
RECURSIVE AnyOrder(_)
AnyOrder(set) ==
    IF set = {} THEN <<>>
    ELSE LET k == CHOOSE x \in set : TRUE IN <<k>> \o AnyOrder(set \ {k})

id_chn_keys(base_keys) ==
    LET m == last_by_id_channel(base_keys)
        values == AnyOrder({m[p] : p \in DOMAIN m})
    IN  sort_by(values, [p \in Pairs(values) |-> fallback_cmp(p[1], p[2])])

\* can_keys as it would be without the filter on the frame type
can_keys_unfiltered(base_keys) == base_keys

\* can_keys (parse.rs 302-306)
can_keys(base_keys) == SelectSeq(base_keys, IsCan)

\* ------------------------------- the earlier loader: asc::core::line::parse
\* CanLog::default(), as from_file uses it: no start time, no frame
CanLogDefault ==
    [ absolute_time |-> AbsoluteTimeDefault, can_frames |-> <<>>, messages |-> <<>>,
      signals |-> <<>>, last_id_chn_frame |-> <<>> ]

\* HashMap::new()
EmptyMap == [k \in {} |-> 0]

\* no call of from_file has been made
AscIdle ==
    /\ asc_pc = "idle"
    /\ log = CanLogDefault
    /\ latest_by_id_channel = EmptyMap
    /\ chart_by_key = EmptyMap
    /\ asc_found_abs_time = FALSE
    /\ asc_nlines = 0
    /\ asc_result = "none"

\* db_list of the caller: channel 1 has a database
DbList == (1 :> Db1)

\* parse_id_u32 of asc/core/line.rs: hexadecimal only
asc_parse_id_u32(id_token) == FromStrRadixU32(StripHexPrefix(TrimEndX(id_token)), 16)

\* char::to_uppercase for the letters of the id tokens of the model
ToUpper(c) ==
    CASE c = "a" -> "A" [] c = "b" -> "B" [] c = "c" -> "C" [] c = "d" -> "D"
      [] c = "e" -> "E" [] c = "f" -> "F" [] c = "x" -> "X" [] c = "z" -> "Z"
      [] OTHER -> c

PrefixedId(id_no_x) ==
    IF Len(id_no_x) >= 2 /\ id_no_x[1] = "0" /\ id_no_x[2] \in {"X", "x"} THEN id_no_x
    ELSE <<"0", "x">> \o id_no_x

canonicalize_id(id_token) ==
    PrefixedId([i \in 1..Len(TrimEndX(id_token)) |-> ToUpper(TrimEndX(id_token)[i])])

\* DatabaseDBC::get_message_by_id_hex: the message registered under the value of the
\* "0x..." string
MessageOfKey(db, msg_key) ==
    IF IsSome(msg_key) THEN get_message_by_key(db, msg_key[1]) ELSE None

MessageOfId(db, id) ==
    IF IsSome(id) THEN MessageOfKey(db, get_msg_key_by_id(db, id[1])) ELSE None

get_message_by_id_hex(db, id_hex) ==
    MessageOfId(db, FromStrRadixU32(SubSeq(id_hex, 3, Len(id_hex)), 16))

\* parse_hex_bytes: the tokens of data that are hex bytes
RECURSIVE parse_hex_bytes(_)
parse_hex_bytes(toks) ==
    IF toks = <<>> THEN <<>>
    ELSE (IF IsSome(FromStrRadix(toks[1], 16, U8_MAX))
          THEN <<FromStrRadix(toks[1], 16, U8_MAX)[1]>> ELSE <<>>)
         \o parse_hex_bytes(Tail(toks))

\* build_sig_key, the signal's key standing for its name
build_sig_key(channel, id_token, sig_key) == <<channel, canonicalize_id(id_token), sig_key>>

\* the SignalLog of index idx (from 0) gets the point of the frame; it is pushed first
\* when the chart has no entry for the key (asc/core/line.rs 128-151)
SignalLogAt(acc, key, idx, s, sig_key, channel, timestamp, raw) ==
    [ signals |->
          [i \in 1..Max(Len(acc.signals), idx + 1) |->
              IF i # idx + 1 THEN acc.signals[i]
              ELSE [ message |-> IF i <= Len(acc.signals) THEN acc.signals[i].message ELSE 0,
                     name |-> sig_key, factor |-> s.factor, offset |-> s.offset,
                     channel |-> IF i <= Len(acc.signals) THEN acc.signals[i].channel
                                 ELSE channel,
                     raw |-> raw, value |-> raw * s.factor + s.offset,
                     values |-> (IF i <= Len(acc.signals) THEN acc.signals[i].values ELSE <<>>)
                                \o <<<<timestamp, raw * s.factor + s.offset>>>> ]],
      chart |-> [k \in DOMAIN acc.chart \cup {key} |-> IF k = key THEN idx ELSE acc.chart[k]],
      indices |-> Append(acc.indices, idx) ]

\* one turn of the loop over msg.signals (asc/core/line.rs 122-154)
SignalStep(acc, dbc, sig_key, key, channel, timestamp, raw) ==
    IF sig_key \notin DOMAIN dbc.sigs THEN acc
    ELSE SignalLogAt(acc, key, IF key \in DOMAIN acc.chart THEN acc.chart[key]
                               ELSE Len(acc.signals),
                     dbc.sigs[sig_key], sig_key, channel, timestamp, raw)

\* the loop over msg.signals: the signals, the chart and the indices after it
SignalLoop(signals, chart, dbc, msg, ln, channel, timestamp, raw) ==
    LET st[n \in 0..Len(msg.signals)] ==
            IF n = 0 THEN [signals |-> signals, chart |-> chart, indices |-> <<>>]
            ELSE SignalStep(st[n - 1], dbc, msg.signals[n],
                            build_sig_key(channel, ln[3], msg.signals[n]),
                            channel, timestamp, raw)
    IN  st[Len(msg.signals)]

\* the entry of the temporary map for the frame of index idx (asc/core/line.rs 205-214):
\* the index kept for the key is replaced when new_ts > existing_ts
latest_entry(can_frames, latest, key, idx) ==
    IF key \in DOMAIN latest
    THEN (IF PartialCmp(can_frames[idx + 1].timestamp, can_frames[latest[key] + 1].timestamp)
               = Some("Greater")
          THEN [latest EXCEPT ![key] = idx] ELSE latest)
    ELSE [k \in DOMAIN latest \cup {key} |-> IF k = key THEN idx ELSE latest[k]]

\* the key of the pushed frame and the update of the map (asc/core/line.rs 194-214)
AscLatest(lg, latest, chart, id_num, channel) ==
    [ log |-> lg, chart |-> chart,
      latest |-> IF IsSome(id_num)
                 THEN latest_entry(lg.can_frames, latest, <<id_num[1], channel>>,
                                   Len(lg.can_frames) - 1)
                 ELSE latest ]

\* the name of the first sender node of the message (asc/core/line.rs 111-115)
SenderNodeName(dbc, msg) ==
    IF Len(msg.sender_nodes) > 0 /\ IsSome(get_node_by_key(dbc, msg.sender_nodes[1]))
    THEN get_node_by_key(dbc, msg.sender_nodes[1])[1].name ELSE <<>>

\* the MessageLog and the CanFrame are pushed (asc/core/line.rs 158-195); sig holds the
\* signals, the chart and the indices after the loop over the message's signals
AscPush(lg, latest, ln, timestamp, channel, byte_length, toks, dbc, msg, sig) ==
    AscLatest(
        [lg EXCEPT
            !.messages = Append(@,
                [ channel |-> channel, byte_length |-> byte_length,
                  protocol |-> IF byte_length <= 8 THEN "CAN" ELSE "CAN FD",
                  id |-> ln[3],
                  name |-> IF IsSome(msg) THEN msg[1].name ELSE <<>>,
                  sender_node |-> IF IsSome(msg) THEN SenderNodeName(dbc[1], msg[1]) ELSE <<>>,
                  data |-> Join(toks),
                  comment |-> IF IsSome(msg) THEN msg[1].comment ELSE <<>>,
                  signals |-> sig.indices ]),
            !.signals = [i \in 1..Len(sig.signals) |->
                            IF \E n \in 1..Len(sig.indices) : sig.indices[n] = i - 1
                            THEN [sig.signals[i] EXCEPT !.message = Len(lg.messages)]
                            ELSE sig.signals[i]],
            !.can_frames = Append(@,
                [ absolute_time |-> FrameAbsoluteTime(lg.absolute_time, timestamp),
                  timestamp |-> timestamp, channel |-> channel, direction |-> ln[4],
                  message |-> Len(lg.messages) ])],
        latest, sig.chart, asc_parse_id_u32(ln[3]), channel)

\* the lookup of the message and the loop over its signals (asc/core/line.rs 106-156)
AscDecode(lg, latest, chart, ln, timestamp, channel, byte_length, toks, dbc, msg) ==
    AscPush(lg, latest, ln, timestamp, channel, byte_length, toks, dbc, msg,
            IF IsSome(msg)
            THEN SignalLoop(lg.signals, chart, dbc[1], msg[1], ln, channel, timestamp,
                            extract_raw_i64(parse_hex_bytes(toks)))
            ELSE [signals |-> lg.signals, chart |-> chart, indices |-> <<>>])

AscLookup(lg, latest, chart, ln, timestamp, channel, byte_length, toks, dbc) ==
    AscDecode(lg, latest, chart, ln, timestamp, channel, byte_length, toks, dbc,
              IF IsSome(dbc) THEN get_message_by_id_hex(dbc[1], canonicalize_id(ln[3]))
              ELSE None)

\* the byte length and the data tokens (asc/core/line.rs 64-81)
AscLength(lg, latest, chart, ln, timestamp, channel, mark, byte_length) ==
    IF ~IsSome(byte_length) \/ Len(ln) < mark + 1 + byte_length[1]
    THEN [log |-> lg, chart |-> chart, latest |-> latest]
    ELSE AscLookup(lg, latest, chart, ln, timestamp, channel, byte_length[1],
                   SubSeq(ln, mark + 2, mark + 1 + byte_length[1]),
                   IF channel \in DOMAIN DbList THEN Some(DbList[channel]) ELSE None)

\* the scan for the data marker (asc/core/line.rs 56-63)
AscMarker(lg, latest, chart, ln, timestamp, channel, mark) ==
    AscLength(lg, latest, chart, ln, timestamp, channel, mark,
              IF mark # 0 /\ mark < Len(ln) THEN FromStrRadix(ln[mark + 1], 10, U16_MAX)
              ELSE None)

\* the timestamp, the channel, the id and the direction (asc/core/line.rs 24-54).  The
\* timestamp is an f32: the timestamps of the model's lines are the same numbers as
\* f32 and as f64.
AscHead(lg, latest, chart, ln, timestamp, channel) ==
    IF ~IsSome(timestamp) \/ ~IsSome(channel) \/ Len(ln) < 4
    THEN [log |-> lg, chart |-> chart, latest |-> latest]
    ELSE AscMarker(lg, latest, chart, ln, timestamp[1], channel[1], DataMarker(ln, 5))

\* asc::core::line::parse on the tokens of a line: the CanLog and the two maps after
\* the call
asc_parse(ln, lg, latest, chart) ==
    AscHead(lg, latest, chart, ln,
            IF Len(ln) >= 1 THEN ParseF64(ln[1]) ELSE None,
            IF Len(ln) >= 2 THEN FromStrRadix(ln[2], 10, U8_MAX) ELSE None)

\* ------------------------------------------------------------- the files
\* the lines a file of the model may hold
line_date1 == <<tok_date>> \o DateTokens1
line_date2 == <<tok_date>> \o DateTokens2
line_dateBad == <<tok_date, tok_garbage>>
\* 2.0 1 100 Rx d 1 00: message "B" of the database
line_a == <<tok_2_0, tok_1, tok_100, tok_Rx, tok_d, tok_1, tok_00>>
\* 1.0 1 100 Tx d 1 00: the same id and channel, an earlier timestamp
line_b == <<tok_1_0, tok_1, tok_100, tok_Tx, tok_d, tok_1, tok_00>>
\* NaN 1 300 Rx d 1 00: an id the database does not hold, a not-a-number timestamp
line_c == <<tok_NaN, tok_1, tok_300, tok_Rx, tok_d, tok_1, tok_00>>
\* 1.0 1 200 Rx d 1 00: message "A", which has no comment and no sender node
line_d == <<tok_1_0, tok_1, tok_200, tok_Rx, tok_d, tok_1, tok_00>>
\* 1.0 3 100 Rx d 1 00: the id of line_a on the Can channel without a database
line_e == <<tok_1_0, tok_3, tok_100, tok_Rx, tok_d, tok_1, tok_00>>
\* 1.0 2 100 Rx d 1 00: a line of the Ethernet channel
line_eth == <<tok_1_0, tok_2, tok_100, tok_Rx, tok_d, tok_1, tok_00>>
\* 1.0 1 100 Bogus d 1 00: a direction that is neither Rx nor Tx
line_bogus == <<tok_1_0, tok_1, tok_100, tok_Bogus, tok_d, tok_1, tok_00>>

Lines ==
    { line_date1, line_date2, line_dateBad, line_a, line_b, line_c, line_d, line_e,
      line_eth, line_bogus }

\* ----------------------------------------------------------------- actions
Init ==
    /\ channel_map = ChannelMapInit
    /\ absolute_time = AbsoluteTimeDefault
    /\ frames = SlotMapDefault
    /\ frame_by_file_order = <<>>
    /\ frame_by_timestamp = <<>>
    /\ frame_by_channel = <<>>
    /\ frame_by_direction = <<>>
    /\ frame_by_can_msg_name = <<>>
    /\ frame_by_can_msg_id = <<>>
    /\ frame_by_can_dlc = <<>>
    /\ frame_by_can_protocol = <<>>
    /\ frame_by_can_sender_node = <<>>
    /\ frame_by_can_data = <<>>
    /\ frame_by_can_comment = <<>>
    /\ id_chn_by_timestamp = <<>>
    /\ id_chn_by_channel = <<>>
    /\ id_chn_by_direction = <<>>
    /\ id_chn_by_can_msg_name = <<>>
    /\ id_chn_by_can_msg_id = <<>>
    /\ id_chn_by_can_dlc = <<>>
    /\ id_chn_by_can_protocol = <<>>
    /\ id_chn_by_can_sender_node = <<>>
    /\ id_chn_by_can_data = <<>>
    /\ id_chn_by_can_comment = <<>>
    /\ pc = "idle"
    /\ found_abs_time = FALSE
    /\ parser = LineParserNew
    /\ result = "none"
    /\ file = <<>>
    /\ prev = None
    /\ nloads = 0
    /\ nlines = 0
    /\ AscIdle

\* clear_frames as it would be with the clear of one vector forgotten
clear_frames_but_one ==
    /\ frames' = sm_clear(frames)
    /\ frame_by_file_order' = <<>>
    /\ frame_by_timestamp' = <<>>
    /\ frame_by_channel' = <<>>
    /\ frame_by_direction' = <<>>
    /\ frame_by_can_msg_name' = <<>>
    /\ frame_by_can_msg_id' = <<>>
    /\ frame_by_can_dlc' = <<>>
    /\ frame_by_can_protocol' = <<>>
    /\ frame_by_can_sender_node' = <<>>
    /\ frame_by_can_data' = <<>>
    /\ frame_by_can_comment' = <<>>
    /\ id_chn_by_timestamp' = <<>>
    /\ id_chn_by_channel' = <<>>
    /\ id_chn_by_direction' = <<>>
    /\ id_chn_by_can_msg_name' = <<>>
    /\ id_chn_by_can_msg_id' = <<>>
    /\ id_chn_by_can_dlc' = <<>>
    /\ id_chn_by_can_protocol' = <<>>
    /\ id_chn_by_can_sender_node' = <<>>
    /\ id_chn_by_can_data' = <<>>
    /\ UNCHANGED <<id_chn_by_can_comment, channel_map, absolute_time>>

\* clear_frames as it would be if it also emptied the signal series
clear_frames_and_series ==
    /\ frames' = sm_clear(frames)
    /\ frame_by_file_order' = <<>>
    /\ frame_by_timestamp' = <<>>
    /\ frame_by_channel' = <<>>
    /\ frame_by_direction' = <<>>
    /\ frame_by_can_msg_name' = <<>>
    /\ frame_by_can_msg_id' = <<>>
    /\ frame_by_can_dlc' = <<>>
    /\ frame_by_can_protocol' = <<>>
    /\ frame_by_can_sender_node' = <<>>
    /\ frame_by_can_data' = <<>>
    /\ frame_by_can_comment' = <<>>
    /\ id_chn_by_timestamp' = <<>>
    /\ id_chn_by_channel' = <<>>
    /\ id_chn_by_direction' = <<>>
    /\ id_chn_by_can_msg_name' = <<>>
    /\ id_chn_by_can_msg_id' = <<>>
    /\ id_chn_by_can_dlc' = <<>>
    /\ id_chn_by_can_protocol' = <<>>
    /\ id_chn_by_can_sender_node' = <<>>
    /\ id_chn_by_can_data' = <<>>
    /\ id_chn_by_can_comment' = <<>>
    /\ channel_map' = ChannelMapInit
    /\ UNCHANGED absolute_time

\* clear_frames as it would be with the arena left as it is
clear_frames_arena_kept ==
    /\ frames' = frames
    /\ frame_by_file_order' = <<>>
    /\ frame_by_timestamp' = <<>>
    /\ frame_by_channel' = <<>>
    /\ frame_by_direction' = <<>>
    /\ frame_by_can_msg_name' = <<>>
    /\ frame_by_can_msg_id' = <<>>
    /\ frame_by_can_dlc' = <<>>
    /\ frame_by_can_protocol' = <<>>
    /\ frame_by_can_sender_node' = <<>>
    /\ frame_by_can_data' = <<>>
    /\ frame_by_can_comment' = <<>>
    /\ id_chn_by_timestamp' = <<>>
    /\ id_chn_by_channel' = <<>>
    /\ id_chn_by_direction' = <<>>
    /\ id_chn_by_can_msg_name' = <<>>
    /\ id_chn_by_can_msg_id' = <<>>
    /\ id_chn_by_can_dlc' = <<>>
    /\ id_chn_by_can_protocol' = <<>>
    /\ id_chn_by_can_sender_node' = <<>>
    /\ id_chn_by_can_data' = <<>>
    /\ id_chn_by_can_comment' = <<>>
    /\ UNCHANGED <<channel_map, absolute_time>>

\* Log::clear_frames
clear_frames ==
    /\ frames' = sm_clear(frames)
    /\ frame_by_file_order' = <<>>
    /\ frame_by_timestamp' = <<>>
    /\ frame_by_channel' = <<>>
    /\ frame_by_direction' = <<>>
    /\ frame_by_can_msg_name' = <<>>
    /\ frame_by_can_msg_id' = <<>>
    /\ frame_by_can_dlc' = <<>>
    /\ frame_by_can_protocol' = <<>>
    /\ frame_by_can_sender_node' = <<>>
    /\ frame_by_can_data' = <<>>
    /\ frame_by_can_comment' = <<>>
    /\ id_chn_by_timestamp' = <<>>
    /\ id_chn_by_channel' = <<>>
    /\ id_chn_by_direction' = <<>>
    /\ id_chn_by_can_msg_name' = <<>>
    /\ id_chn_by_can_msg_id' = <<>>
    /\ id_chn_by_can_dlc' = <<>>
    /\ id_chn_by_can_protocol' = <<>>
    /\ id_chn_by_can_sender_node' = <<>>
    /\ id_chn_by_can_data' = <<>>
    /\ id_chn_by_can_comment' = <<>>
    /\ UNCHANGED <<channel_map, absolute_time>>

\* the caller clears the frames of an idle Log
ClearFrames ==
    /\ pc = "idle"
    /\ clear_frames
    /\ result' = "cleared"
    /\ prev' = None
    /\ UNCHANGED <<pc, found_abs_time, parser, file, nloads, nlines>>
    /\ UNCHANGED ascVars

\* from_asc_file with a path that does not end in ".asc" (parse.rs 15-22)
LoadInvalidExtension ==
    /\ pc = "idle"
    /\ nloads < MaxLoads
    /\ clear_frames
    /\ result' = "InvalidExtension"
    /\ prev' = None
    /\ nloads' = nloads + 1
    /\ UNCHANGED <<pc, found_abs_time, parser, file, nlines>>
    /\ UNCHANGED ascVars

\* from_asc_file with a path File::open fails on (parse.rs 15-36)
LoadOpenFile ==
    /\ pc = "idle"
    /\ nloads < MaxLoads
    /\ clear_frames
    /\ result' = "OpenFile"
    /\ prev' = None
    /\ nloads' = nloads + 1
    /\ UNCHANGED <<pc, found_abs_time, parser, file, nlines>>
    /\ UNCHANGED ascVars

\* from_asc_file up to the first read_line (parse.rs 15-39)
BeginLoad ==
    /\ pc = "idle"
    /\ nloads < MaxLoads
    /\ clear_frames
    /\ pc' = "reading"
    /\ found_abs_time' = FALSE
    /\ parser' = LineParserNew
    /\ result' = "running"
    /\ file' = <<>>
    /\ prev' = IF result = "Ok" THEN Some([file |-> file, vecs |-> indexVecs]) ELSE None
    /\ nloads' = nloads + 1
    /\ UNCHANGED nlines
    /\ UNCHANGED ascVars

\* core::line::parse(trimmed, log): the Log after the decoder's call
Decode(r) ==
    /\ parser' = r.self
    /\ channel_map' = r.cm
    /\ IF IsSome(r.ins)
       THEN /\ frames' = sm_insert(frames, r.ins[1]).sm
            /\ frame_by_file_order' = Append(frame_by_file_order, sm_insert(frames, r.ins[1]).key)
       ELSE UNCHANGED <<frames, frame_by_file_order>>

\* the body of the loop as it would be without the test of found_abs_time
LineBody_every_header(ln, time) ==
    IF IsSome(time)
    THEN /\ absolute_time' = time[1]
         /\ found_abs_time' = TRUE
         /\ UNCHANGED <<channel_map, frames, frame_by_file_order, parser>>
    ELSE /\ Decode(parse(parser, ln, channel_map, absolute_time))
         /\ UNCHANGED <<absolute_time, found_abs_time>>

\* the body of the loop on a line (parse.rs 51-57), time being from_line(trimmed)
LineBody(ln, time) ==
    IF ~found_abs_time /\ IsSome(time)
    THEN /\ absolute_time' = time[1]
         /\ found_abs_time' = TRUE
         /\ UNCHANGED <<channel_map, frames, frame_by_file_order, parser>>
    ELSE /\ Decode(parse(parser, ln, channel_map, absolute_time))
         /\ UNCHANGED <<absolute_time, found_abs_time>>

\* a loop that would keep frame_by_timestamp up to date line by line
ReadLine_incremental(ln) ==
    /\ pc = "reading"
    /\ nlines < MaxLines
    /\ file' = Append(file, ln)
    /\ nlines' = nlines + 1
    /\ LineBody(ln, from_line(ln))
    /\ frame_by_timestamp' = frame_by_file_order'
    /\ UNCHANGED <<frame_by_channel, frame_by_direction, canVecs, idChnVecs, pc, result,
                   prev, nloads>>
    /\ UNCHANGED ascVars

\* a loop that would return an error on a line that yields an ErrorFrame
ReadLine_abort_on_error(ln) ==
    /\ pc = "reading"
    /\ nlines < MaxLines
    /\ file' = Append(file, ln)
    /\ nlines' = nlines + 1
    /\ LineBody(ln, from_line(ln))
    /\ IF Len(frame_by_file_order') > Len(frame_by_file_order)
          /\ Unwrap(sm_get(frames', frame_by_file_order'[Len(frame_by_file_order')])).ftype
                 = "ErrorFrame"
       THEN pc' = "idle" /\ result' = "Read"
       ELSE UNCHANGED <<pc, result>>
    /\ UNCHANGED <<genericVecs, canVecs, idChnVecs, prev, nloads>>
    /\ UNCHANGED ascVars

\* one turn of the loop on a line read (parse.rs 41-58)
ReadLine(ln) ==
    /\ pc = "reading"
    /\ nlines < MaxLines
    /\ file' = Append(file, ln)
    /\ nlines' = nlines + 1
    /\ LineBody(ln, from_line(ln))
    /\ UNCHANGED <<genericVecs, canVecs, idChnVecs, pc, result, prev, nloads>>
    /\ UNCHANGED ascVars

\* a read error that would roll the load back before it returns
ReadError_rollback ==
    /\ pc = "reading"
    /\ pc' = "idle"
    /\ result' = "Read"
    /\ found_abs_time' = FALSE
    /\ parser' = LineParserNew
    /\ frames' = sm_clear(frames)
    /\ frame_by_file_order' = <<>>
    /\ UNCHANGED <<channel_map, absolute_time, genericVecs,
                   canVecs, idChnVecs, file, prev, nloads, nlines>>
    /\ UNCHANGED ascVars

\* read_line fails: the `?` returns the Read error (parse.rs 42-47)
ReadError ==
    /\ pc = "reading"
    /\ pc' = "idle"
    /\ result' = "Read"
    /\ found_abs_time' = FALSE
    /\ parser' = LineParserNew
    /\ UNCHANGED <<channel_map, absolute_time, frames, frame_by_file_order, genericVecs,
                   canVecs, idChnVecs, file, prev, nloads, nlines>>
    /\ UNCHANGED ascVars

\* the sorting block (parse.rs 287-341)
BuildIndexes(base_keys, idc, can) ==
    /\ frame_by_timestamp' = sort_by_timestamp(base_keys)
    /\ id_chn_by_timestamp' = sort_by_timestamp(idc)
    /\ frame_by_channel' = sort_by_channel(base_keys)
    /\ id_chn_by_channel' = sort_by_channel(idc)
    /\ frame_by_direction' = sort_by_direction(base_keys)
    /\ id_chn_by_direction' = sort_by_direction(idc)
    /\ frame_by_can_msg_name' = sort_by_can_msg_name(can)
    /\ id_chn_by_can_msg_name' = sort_by_can_msg_name(idc)
    /\ frame_by_can_msg_id' = sort_by_can_msg_id(can)
    /\ id_chn_by_can_msg_id' = sort_by_can_msg_id(idc)
    /\ frame_by_can_dlc' = sort_by_can_dlc(can)
    /\ id_chn_by_can_dlc' = sort_by_can_dlc(idc)
    /\ frame_by_can_protocol' = sort_by_can_protocol(can)
    /\ id_chn_by_can_protocol' = sort_by_can_protocol(idc)
    /\ frame_by_can_sender_node' = sort_by_can_sender_node(can)
    /\ id_chn_by_can_sender_node' = sort_by_can_sender_node(idc)
    /\ frame_by_can_data' = sort_by_can_data(can)
    /\ id_chn_by_can_data' = sort_by_can_data(idc)
    /\ frame_by_can_comment' = sort_by_can_comment(can)
    /\ id_chn_by_can_comment' = sort_by_can_comment(idc)

\* read_line returns 0: the loop ends, the index vectors are built and the call
\* returns Ok (parse.rs 48-50, 60-343)
EndOfFile ==
    /\ pc = "reading"
    /\ BuildIndexes(frame_by_file_order, id_chn_keys(frame_by_file_order),
                    can_keys(frame_by_file_order))
    /\ pc' = "idle"
    /\ result' = "Ok"
    /\ found_abs_time' = FALSE
    /\ parser' = LineParserNew
    /\ UNCHANGED <<channel_map, absolute_time, frames, frame_by_file_order, file, prev,
                   nloads, nlines>>
    /\ UNCHANGED ascVars

Next ==
    \/ ClearFrames
    \/ LoadInvalidExtension
    \/ LoadOpenFile
    \/ BeginLoad
    \/ \E ln \in Lines : ReadLine(ln)
    \/ ReadError
    \/ EndOfFile

Spec == Init /\ [][Next]_vars

\* ------------------------------------------------- the decoder on its own
\* the tokens the lines given to the decoder start with: timestamp, channel, id
head_100 == <<tok_1_0, tok_1, tok_100>>

\* valid lines: two bytes; a token between the direction and an upper-case marker; no
\* byte; a token after the last byte
line_two == head_100 \o <<tok_Rx, tok_d, tok_2, tok_0A, tok_0B>>
line_ecu == head_100 \o <<tok_Tx, tok_ECU, tok_D, tok_1, tok_FF>>
line_empty == head_100 \o <<tok_Rx, tok_d, tok_0>>
line_extra == head_100 \o <<tok_Rx, tok_d, tok_1, tok_00, tok_FF>>
\* lines with fewer byte tokens than declared, and one with a token that is no byte
line_two_short == head_100 \o <<tok_Rx, tok_d, tok_2, tok_0A>>
line_a_short == <<tok_2_0, tok_1, tok_100, tok_Rx, tok_d, tok_1>>
line_ecu_short == head_100 \o <<tok_Tx, tok_ECU, tok_D, tok_1>>
line_bad_byte == head_100 \o <<tok_Rx, tok_d, tok_1, tok_zz>>
\* lines with a direction that is not Rx or Tx, without direction, without marker,
\* with a length that is no number, with the marker as last token
line_lower_rx == head_100 \o <<tok_rx, tok_d, tok_1, tok_00>>
line_no_direction == head_100
line_no_marker == head_100 \o <<tok_Rx, tok_1, tok_00>>
line_bad_length == head_100 \o <<tok_Rx, tok_d, tok_zz>>
line_marker_last == head_100 \o <<tok_Rx, tok_d>>
\* lines with a timestamp that is no float, a channel that is no u8, a channel that
\* channel_map does not hold
line_bad_timestamp == <<tok_abc, tok_1, tok_100, tok_Rx, tok_d, tok_1, tok_00>>
line_channel_256 == <<tok_1_0, tok_256, tok_100, tok_Rx, tok_d, tok_1, tok_00>>
line_channel_zz == <<tok_1_0, tok_zz, tok_100, tok_Rx, tok_d, tok_1, tok_00>>
line_channel_9 == <<tok_1_0, tok_9, tok_100, tok_Rx, tok_d, tok_1, tok_00>>
\* lines with other id tokens
line_id_17334410x == <<tok_65_5, tok_1, tok_17334410x, tok_Rx, tok_d, tok_1, tok_00>>
line_id_12AB == <<tok_1_0, tok_1, tok_12AB, tok_Rx, tok_d, tok_1, tok_00>>
line_id_100X == <<tok_1_0, tok_1, tok_100X, tok_Rx, tok_d, tok_1, tok_00>>
line_id_123456789 == <<tok_1_0, tok_1, tok_123456789, tok_Rx, tok_d, tok_1, tok_00>>
line_id_zz == <<tok_1_0, tok_1, tok_zz, tok_Rx, tok_d, tok_1, tok_00>>
line_id_x == <<tok_1_0, tok_1, tok_x, tok_Rx, tok_d, tok_1, tok_00>>
line_id_300 == <<tok_1_0, tok_1, tok_300, tok_Rx, tok_d, tok_1, tok_00>>
line_id_800 == <<tok_1_0, tok_1, tok_800, tok_Rx, tok_d, tok_1, tok_00>>
line_id_900 == <<tok_1_0, tok_1, tok_900, tok_Rx, tok_d, tok_1, tok_00>>
\* a frame of more than 8 bytes, of another message
line_nine ==
    <<tok_1_0, tok_1, tok_200, tok_Rx, tok_d, tok_9,
      tok_00, tok_00, tok_00, tok_00, tok_00, tok_00, tok_00, tok_00, tok_00>>

DecodeLines ==
    { line_a, line_two, line_ecu, line_empty, line_extra,
      line_two_short, line_a_short, line_ecu_short, line_bad_byte,
      line_bogus, line_lower_rx, line_no_direction, line_no_marker, line_bad_length,
      line_marker_last,
      line_bad_timestamp, line_channel_256, line_channel_zz, line_channel_9, line_eth,
      line_id_17334410x, line_id_12AB, line_id_100X, line_id_123456789, line_id_zz,
      line_id_x, line_id_300, line_id_800, line_id_900, line_e, line_nine }

\* the date headers a file given to the decoder may start with
line_date3 == <<tok_date>> \o DateTokens3
DecodeHeaders == {line_date1, line_date3}

\* from_asc_file on a new Log has reached the loop (parse.rs 15-39), and has read the
\* date header when the file starts with one (parse.rs 52-56)
InitDecode ==
    /\ channel_map = ChannelMapInit
    /\ \/ /\ absolute_time = AbsoluteTimeDefault
          /\ found_abs_time = FALSE
          /\ file = <<>>
       \/ \E header \in DecodeHeaders :
             /\ absolute_time = from_line(header)[1]
             /\ found_abs_time = TRUE
             /\ file = <<header>>
    /\ frames = SlotMapDefault
    /\ frame_by_file_order = <<>>
    /\ frame_by_timestamp = <<>>
    /\ frame_by_channel = <<>>
    /\ frame_by_direction = <<>>
    /\ frame_by_can_msg_name = <<>>
    /\ frame_by_can_msg_id = <<>>
    /\ frame_by_can_dlc = <<>>
    /\ frame_by_can_protocol = <<>>
    /\ frame_by_can_sender_node = <<>>
    /\ frame_by_can_data = <<>>
    /\ frame_by_can_comment = <<>>
    /\ id_chn_by_timestamp = <<>>
    /\ id_chn_by_channel = <<>>
    /\ id_chn_by_direction = <<>>
    /\ id_chn_by_can_msg_name = <<>>
    /\ id_chn_by_can_msg_id = <<>>
    /\ id_chn_by_can_dlc = <<>>
    /\ id_chn_by_can_protocol = <<>>
    /\ id_chn_by_can_sender_node = <<>>
    /\ id_chn_by_can_data = <<>>
    /\ id_chn_by_can_comment = <<>>
    /\ pc = "reading"
    /\ parser = LineParserNew
    /\ result = "running"
    /\ prev = None
    /\ nloads = 1
    /\ nlines = Len(file)
    /\ AscIdle

\* one turn of the loop on a line that is no date header
DecodeLine(ln) ==
    /\ nlines < MaxDecodeLines + (IF found_abs_time THEN 1 ELSE 0)
    /\ ReadLine(ln)

NextDecode ==
    \/ \E ln \in DecodeLines : DecodeLine(ln)
    \/ EndOfFile

SpecDecode == InitDecode /\ [][NextDecode]_vars

\* The loop of from_asc_file is left: a file has finitely many lines, so read_line
\* returns 0 (EndOfFile) or an error (ReadError) after the last of them.
LoopLeft == pc = "reading" /\ pc' = "idle"
FairSpec == Spec /\ WF_pc(LoopLeft)

\* ------------------------------------ the earlier loader: asc::parse::from_file
\* the variables of from_asc_file and its Log
newVars ==
    <<channel_map, absolute_time, frames, frame_by_file_order, genericVecs, canVecs,
      idChnVecs, pc, found_abs_time, parser, result, file, prev, nloads, nlines>>

line_nan == <<tok_NaN, tok_1, tok_100, tok_Rx, tok_d, tok_1, tok_00>>

AscLines ==
    { line_date1, line_a, line_b, line_c, line_d, line_e, line_eth, line_bogus, line_nan,
      line_id_zz, line_a_short, line_bad_byte }

\* from_file with a path that does not end in ".asc" (asc/parse.rs 66-70)
AscInvalidExtension ==
    /\ asc_pc = "idle"
    /\ asc_result' = "InvalidExtension"
    /\ log' = CanLogDefault
    /\ latest_by_id_channel' = EmptyMap
    /\ chart_by_key' = EmptyMap
    /\ asc_found_abs_time' = FALSE
    /\ asc_nlines' = 0
    /\ UNCHANGED <<asc_pc, newVars>>

\* from_file with a path File::open fails on (asc/parse.rs 66-89)
AscOpenFile ==
    /\ asc_pc = "idle"
    /\ asc_result' = "OpenFile"
    /\ log' = CanLogDefault
    /\ latest_by_id_channel' = EmptyMap
    /\ chart_by_key' = EmptyMap
    /\ asc_found_abs_time' = FALSE
    /\ asc_nlines' = 0
    /\ UNCHANGED <<asc_pc, newVars>>

\* from_file up to the loop (asc/parse.rs 66-91)
AscBegin ==
    /\ asc_pc = "idle"
    /\ asc_pc' = "reading"
    /\ asc_result' = "running"
    /\ log' = CanLogDefault
    /\ latest_by_id_channel' = EmptyMap
    /\ chart_by_key' = EmptyMap
    /\ asc_found_abs_time' = FALSE
    /\ asc_nlines' = 0
    /\ UNCHANGED newVars

\* the CanLog and the maps after core::line::parse
AscDecoded(r) ==
    /\ log' = r.log
    /\ latest_by_id_channel' = r.latest
    /\ chart_by_key' = r.chart

\* one turn of the loop on a line (asc/parse.rs 92-109), time being
\* core::abs_time::from_line(&line)
AscReadLine(ln) ==
    /\ asc_pc = "reading"
    /\ asc_nlines < MaxAscLines
    /\ asc_nlines' = asc_nlines + 1
    /\ IF ~asc_found_abs_time /\ IsSome(from_line(ln))
       THEN /\ log' = [log EXCEPT !.absolute_time = from_line(ln)[1]]
            /\ asc_found_abs_time' = TRUE
            /\ UNCHANGED <<latest_by_id_channel, chart_by_key>>
       ELSE /\ AscDecoded(asc_parse(ln, log, latest_by_id_channel, chart_by_key))
            /\ UNCHANGED asc_found_abs_time
    /\ UNCHANGED <<asc_pc, asc_result, newVars>>

\* a line of reader.lines() is an error: the `?` returns Read and the CanLog is
\* dropped (asc/parse.rs 93-96)
AscReadError ==
    /\ asc_pc = "reading"
    /\ asc_pc' = "idle"
    /\ asc_result' = "Read"
    /\ log' = CanLogDefault
    /\ latest_by_id_channel' = EmptyMap
    /\ chart_by_key' = EmptyMap
    /\ asc_found_abs_time' = FALSE
    /\ UNCHANGED <<asc_nlines, newVars>>

\* the orders of the values of a map: HashMap::into_values yields them in any order
ValueOrders(m) ==
    { order \in [1..Cardinality(DOMAIN m) -> {m[k] : k \in DOMAIN m}] :
        \A i, j \in DOMAIN order : order[i] = order[j] => i = j }

\* the lines are exhausted: last_id_chn_frame is collected from the map and the CanLog
\* is returned (asc/parse.rs 111-114)
AscEndOfFile ==
    /\ asc_pc = "reading"
    /\ asc_pc' = "idle"
    /\ asc_result' = "Ok"
    /\ \E order \in ValueOrders(latest_by_id_channel) :
          log' = [log EXCEPT !.last_id_chn_frame = order]
    /\ UNCHANGED <<latest_by_id_channel, chart_by_key, asc_found_abs_time, asc_nlines,
                   newVars>>

NextAsc ==
    \/ AscInvalidExtension
    \/ AscOpenFile
    \/ AscBegin
    \/ \E ln \in AscLines : AscReadLine(ln)
    \/ AscReadError
    \/ AscEndOfFile

SpecAsc == Init /\ [][NextAsc]_vars

\* ------------------------------------------------------------- properties
\* from_asc_file has returned Ok(()) and no other call followed
Loaded == pc = "idle" /\ result = "Ok"

\* the position of a key in a vector that holds it
Position(vec, key) == CHOOSE i \in 1..Len(vec) : vec[i] = key

NoDuplicates(vec) == \A i, j \in 1..Len(vec) : vec[i] = vec[j] => i = j

IsPermutationOf(vec, keys) == NoDuplicates(vec) /\ Range(vec) = keys

\* the positions of frame_by_file_order whose frame has type Can
CanPositions ==
    {i \in 1..Len(frame_by_file_order) : Fr(frame_by_file_order[i]).ftype = "Can"}

PairOf(key) == <<Fr(key).id, Fr(key).channel>>

\* the keys of the Can frames no later Can frame of the file shares (id, channel) with
LastOccurrences ==
    { frame_by_file_order[i] :
        i \in {h \in CanPositions :
                 \A j \in CanPositions :
                     j > h => PairOf(frame_by_file_order[j]) # PairOf(frame_by_file_order[h])} }

\* C1: after a successful load every id_chn_* vector holds exactly one key for each
\* (id, channel) pair of the Can frames, the key of the last frame of the pair in file
\* order, and no other key.
C1_IdChnKeepsLastInFile ==
    Loaded => \A n \in 1..10 : IsPermutationOf(idChnVecs[n], LastOccurrences)

\* a pair occurs twice, the later frame with the smaller timestamp, and is the one kept
C1_LaterFrameHasSmallerTimestamp ==
    /\ Loaded
    /\ \E i, j \in CanPositions :
          /\ i < j
          /\ PairOf(frame_by_file_order[i]) = PairOf(frame_by_file_order[j])
          /\ cmp_f64(Fr(frame_by_file_order[i]).timestamp,
                     Fr(frame_by_file_order[j]).timestamp) = "Greater"
          /\ frame_by_file_order[j] \in Range(id_chn_by_timestamp)
          /\ frame_by_file_order[i] \notin Range(id_chn_by_timestamp)

\* C2: after a successful load the three generic vectors are permutations of
\* frame_by_file_order and the seven frame_by_can_* vectors are permutations of its
\* keys whose frame has type Can.
C2_VectorsArePermutations ==
    Loaded =>
        /\ \A n \in 1..3 : IsPermutationOf(genericVecs[n], Range(frame_by_file_order))
        /\ \A n \in 1..7 :
              IsPermutationOf(canVecs[n], {frame_by_file_order[i] : i \in CanPositions})

\* a file with an ErrorFrame and Can frames that the timestamp order rearranges
C2_ErrorFrameAmongCanFrames ==
    /\ Loaded
    /\ \E k \in Range(frame_by_file_order) : Fr(k).ftype = "ErrorFrame"
    /\ Cardinality(CanPositions) >= 2
    /\ frame_by_timestamp # frame_by_file_order

\* the keys of a vector whose frame resolves to a message, to a sender node
MsgResolved(vec) == {k \in Range(vec) : IsSome(MessageOf(Fr(k)))}
NodeResolved(vec) == {k \in Range(vec) : IsSome(NodeOf(Fr(k)))}

\* the keys of a vector whose frame resolves to a message with a name, to a message with
\* a comment, to a sender node with a name
Named(vec) == {k \in MsgResolved(vec) : MessageOf(Fr(k))[1].name # <<>>}
Commented(vec) == {k \in MsgResolved(vec) : MessageOf(Fr(k))[1].comment # <<>>}
NodeNamed(vec) == {k \in NodeResolved(vec) : NodeOf(Fr(k))[1].name # <<>>}

\* no key outside the set resolved precedes a key of it
UnresolvedLast(vec, resolved) ==
    \A i, j \in 1..Len(vec) : (vec[i] \notin resolved /\ vec[j] \in resolved) => j < i

\* the keys outside the set nonempty precede those of it, in file order
EmptyFirst(vec, nonempty) ==
    \A i, j \in 1..Len(vec) :
        /\ (vec[i] \notin nonempty /\ vec[j] \in nonempty) => i < j
        /\ (vec[i] \notin nonempty /\ vec[j] \notin nonempty /\ i < j)
               => key_position(vec[i]) < key_position(vec[j])

\* C3 as claimed: in the orderings by message name, sender node and comment every frame
\* whose message or node does not resolve is placed after all frames whose reference
\* resolves.
C3_UnresolvedAfterResolved ==
    Loaded =>
        /\ UnresolvedLast(frame_by_can_msg_name, MsgResolved(frame_by_can_msg_name))
        /\ UnresolvedLast(id_chn_by_can_msg_name, MsgResolved(id_chn_by_can_msg_name))
        /\ UnresolvedLast(frame_by_can_sender_node, NodeResolved(frame_by_can_sender_node))
        /\ UnresolvedLast(id_chn_by_can_sender_node, NodeResolved(id_chn_by_can_sender_node))
        /\ UnresolvedLast(frame_by_can_comment, MsgResolved(frame_by_can_comment))
        /\ UnresolvedLast(id_chn_by_can_comment, MsgResolved(id_chn_by_can_comment))

\* C3 as amended: in these orderings a frame whose message or node does not resolve is
\* ranked as one whose name or comment is the empty string: it precedes every frame
\* whose resolved string is not empty, and it is in file order with the other unresolved
\* frames and the resolved frames whose string is empty.
C3_UnresolvedRankedAsEmpty ==
    Loaded =>
        /\ EmptyFirst(frame_by_can_msg_name, Named(frame_by_can_msg_name))
        /\ EmptyFirst(id_chn_by_can_msg_name, Named(id_chn_by_can_msg_name))
        /\ EmptyFirst(frame_by_can_sender_node, NodeNamed(frame_by_can_sender_node))
        /\ EmptyFirst(id_chn_by_can_sender_node, NodeNamed(id_chn_by_can_sender_node))
        /\ EmptyFirst(frame_by_can_comment, Commented(frame_by_can_comment))
        /\ EmptyFirst(id_chn_by_can_comment, Commented(id_chn_by_can_comment))

\* an unresolved frame that follows a named one in the file precedes it by message name,
\* and one that follows a resolved frame without a comment stays behind it by comment
C3_UnresolvedMovedAhead ==
    /\ Loaded
    /\ \E i, j \in 1..Len(frame_by_can_msg_name) :
          /\ i < j
          /\ frame_by_can_msg_name[i] \notin MsgResolved(frame_by_can_msg_name)
          /\ frame_by_can_msg_name[j] \in Named(frame_by_can_msg_name)
          /\ key_position(frame_by_can_msg_name[i]) > key_position(frame_by_can_msg_name[j])
    /\ \E i, j \in 1..Len(frame_by_can_comment) :
          /\ i < j
          /\ frame_by_can_comment[j] \notin MsgResolved(frame_by_can_comment)
          /\ frame_by_can_comment[i] \in MsgResolved(frame_by_can_comment)

\* ord is a strict total order on keys: two distinct keys never compare Equal, Less one
\* way is Greater the other way, and Less is transitive
StrictTotalOrder(ord, keys) ==
    \A a, b \in keys :
        /\ (ord[<<a, b>>] = "Equal") <=> (a = b)
        /\ (ord[<<a, b>>] = "Less") <=> (ord[<<b, a>>] = "Greater")
        /\ \A c \in keys :
              (ord[<<a, b>>] = "Less" /\ ord[<<b, c>>] = "Less") => ord[<<a, c>>] = "Less"

\* C4: the comparison of every ordering is a strict total order on the keys of the
\* frames the decoder inserted, whatever timestamps it accepted.
C4_ComparisonsAreStrictTotalOrders ==
    LET keys == Range(frame_by_file_order)
        both == keys \X keys
    IN  /\ StrictTotalOrder([p \in both |-> by_timestamp(p[1], p[2])], keys)
        /\ StrictTotalOrder([p \in both |-> by_channel(p[1], p[2])], keys)
        /\ StrictTotalOrder([p \in both |-> by_direction(p[1], p[2])], keys)
        /\ StrictTotalOrder([p \in both |-> by_can_msg_name(p[1], p[2])], keys)
        /\ StrictTotalOrder([p \in both |-> by_can_msg_id(p[1], p[2])], keys)
        /\ StrictTotalOrder([p \in both |-> by_can_dlc(p[1], p[2])], keys)
        /\ StrictTotalOrder([p \in both |-> by_can_protocol(p[1], p[2])], keys)
        /\ StrictTotalOrder([p \in both |-> by_can_sender_node(p[1], p[2])], keys)
        /\ StrictTotalOrder([p \in both |-> by_can_data(p[1], p[2])], keys)
        /\ StrictTotalOrder([p \in both |-> by_can_comment(p[1], p[2])], keys)

\* the second of two successive successful loads has read the file of the first
SameFileReloaded == Loaded /\ IsSome(prev) /\ prev[1].file = file

\* a vector as the positions its keys have in the file order of their load
PositionsIn(vec, order) == [i \in 1..Len(vec) |-> Position(order, vec[i])]

\* C5 as claimed: after the second load of the same file every index vector is the same
\* sequence of FrameKey values as after the first.
C5_ReloadSameKeys == SameFileReloaded => indexVecs = prev[1].vecs

\* C5 as amended: after the second load of the same file every index vector lists the
\* frames in the same order as after the first (the same sequence of positions in the
\* file), also among frames that share a timestamp; the FrameKey values are new ones.
C5_ReloadSameOrder ==
    SameFileReloaded =>
        \A n \in 1..21 :
            PositionsIn(indexVecs[n], frame_by_file_order)
                = PositionsIn(prev[1].vecs[n], prev[1].vecs[1])

\* the file reloaded holds two frames of one timestamp, and the keys are new
C5_ReloadedWithSharedTimestamp ==
    /\ SameFileReloaded
    /\ indexVecs # prev[1].vecs
    /\ \E i, j \in 1..Len(frame_by_file_order) :
          /\ i < j
          /\ ~Fr(frame_by_file_order[i]).timestamp.nan
          /\ Fr(frame_by_file_order[i]).timestamp = Fr(frame_by_file_order[j]).timestamp

\* a line of the file is accepted as a date header
HasDateHeader(f) == \E i \in 1..Len(f) : IsSome(from_line(f[i]))

\* C6: after a load of a file without a valid date header log.absolute_time is empty
\* and every frame the load decoded has the absolute_time of the placeholder path,
\* whatever was loaded before.
C6_NoHeaderNoAbsoluteTime ==
    (Loaded /\ ~HasDateHeader(file)) =>
        /\ absolute_time.value = None
        /\ \A i \in CanPositions :
              Fr(frame_by_file_order[i]).absolute_time
                  = seconds_to_hms_string(Fr(frame_by_file_order[i]).timestamp)

\* a line whose timestamp and channel parse, on a channel declared Ethernet
EthernetLine(ln) ==
    /\ Len(ln) >= 2
    /\ IsSome(ParseF64(ln[1]))
    /\ IsSome(FromStrRadix(ln[2], 10, U8_MAX))
    /\ FromStrRadix(ln[2], 10, U8_MAX)[1] \in DOMAIN channel_map
    /\ channel_map[FromStrRadix(ln[2], 10, U8_MAX)[1]].tipo = "Ethernet"

\* C7: every line of an Ethernet channel yields one frame of type Eth, whose key is in
\* frame_by_file_order and the generic orderings and in no ordering of the Can frames.
C7_EthernetLineYieldsEthFrame ==
    Loaded =>
        LET eth == {k \in Range(frame_by_file_order) : Fr(k).ftype = "Eth"}
        IN  /\ Cardinality(eth) = Cardinality({i \in 1..Len(file) : EthernetLine(file[i])})
            /\ \A k \in eth :
                  /\ \A n \in 1..3 : k \in Range(genericVecs[n])
                  /\ \A n \in 1..7 : k \notin Range(canVecs[n])
                  /\ \A n \in 1..10 : k \notin Range(idChnVecs[n])

\* C8: a call that fails with InvalidExtension or OpenFile leaves the arena, the index
\* vectors, absolute_time and channel_map as they were before it.
C8_FailedLoadLeavesLog ==
    [][(nloads' = nloads + 1 /\ result' \in {"InvalidExtension", "OpenFile"})
          => /\ frames' = frames
             /\ indexVecs' = indexVecs
             /\ absolute_time' = absolute_time
             /\ channel_map' = channel_map]_vars

\* the signal of a database but for its time series
SignalLayout(sig) == [factor |-> sig.factor, offset |-> sig.offset]

\* cm2 has the channels of cm1, each of the same kind and bound to the same database,
\* in which only the time series of the signals may have grown
BindingsKept(cm1, cm2) ==
    /\ DOMAIN cm2 = DOMAIN cm1
    /\ \A ch \in DOMAIN cm1 :
          /\ cm2[ch].number = cm1[ch].number
          /\ cm2[ch].tipo = cm1[ch].tipo
          /\ IsSome(cm2[ch].database) = IsSome(cm1[ch].database)
          /\ IsSome(cm1[ch].database) =>
                /\ cm2[ch].database[1].msg_key_by_id = cm1[ch].database[1].msg_key_by_id
                /\ cm2[ch].database[1].messages = cm1[ch].database[1].messages
                /\ cm2[ch].database[1].nodes = cm1[ch].database[1].nodes
                /\ DOMAIN cm2[ch].database[1].sigs = DOMAIN cm1[ch].database[1].sigs
                /\ \A k \in DOMAIN cm1[ch].database[1].sigs :
                      /\ SignalLayout(cm2[ch].database[1].sigs[k])
                            = SignalLayout(cm1[ch].database[1].sigs[k])
                      /\ Len(cm2[ch].database[1].sigs[k].raws)
                            >= Len(cm1[ch].database[1].sigs[k].raws)
                      /\ SubSeq(cm2[ch].database[1].sigs[k].raws, 1,
                                Len(cm1[ch].database[1].sigs[k].raws))
                            = cm1[ch].database[1].sigs[k].raws

\* C9: a call to from_asc_file empties the arena and the 21 index vectors before it
\* reads, and no step of a load changes the channels of channel_map, their kinds or
\* the databases bound to them; only the time series of the signals grow.
C9_ReloadClearsFramesKeepsChannels ==
    [][/\ (nloads' = nloads + 1) =>
             /\ frames'.num_elems = 0
             /\ sm_keys(frames') = {}
             /\ \A n \in 1..21 : indexVecs'[n] = <<>>
       /\ BindingsKept(channel_map, channel_map')]_vars

\* a second load has just cleared a Log that held frames and grown time series
C9_ReloadOfLoadedLog ==
    /\ pc = "reading"
    /\ file = <<>>
    /\ IsSome(prev)
    /\ prev[1].vecs[1] # <<>>
    /\ Len(frames.slots) > 0
    /\ sm_keys(frames) = {}
    /\ channel_map[1].database[1].sigs[1].raws # <<>>

\* the first line of a file that is accepted as a date header
FirstHeader(f) ==
    CHOOSE i \in 1..Len(f) :
        IsSome(from_line(f[i])) /\ \A j \in 1..(i - 1) : ~IsSome(from_line(f[j]))

\* C10: log.absolute_time is the one of the first line of the file accepted as a date
\* header, whatever lines follow it, and no line accepted as a date header inserts a
\* frame.
C10_OnlyFirstHeaderCounts ==
    ((pc = "reading" \/ Loaded) /\ HasDateHeader(file)) =>
        /\ absolute_time = from_line(file[FirstHeader(file)])[1]
        /\ Len(frame_by_file_order)
              <= Cardinality({i \in 1..Len(file) : ~IsSome(from_line(file[i]))})

\* a second, different date header has been read after the first
C10_SecondHeaderRead ==
    /\ pc = "reading"
    /\ \E i, j \in 1..Len(file) :
          /\ i < j
          /\ IsSome(from_line(file[i]))
          /\ IsSome(from_line(file[j]))
          /\ from_line(file[j]) # from_line(file[i])
    /\ frame_by_file_order = <<>>

\* ------------------------------------------------------------------- C11
\* the number of space-separated tokens of a string
TokenCount(s) == Cardinality({i \in 1..Len(s) : s[i] # " " /\ (i = 1 \/ s[i - 1] = " ")})

\* the frames of the arena
ArenaFrames == {Fr(k) : k \in sm_keys(frames)}

\* the line ends with the declared number L >= 1 of byte tokens, after a timestamp, a
\* bound Can channel, an id, a direction and a data marker
ValidCanLine(ln) ==
    /\ Len(ln) >= 7
    /\ ln[1] \in {tok_1_0, tok_2_0, tok_65_5}
    /\ ln[2] \in {tok_1, tok_3}
    /\ ln[3] \in {tok_100, tok_200, tok_300}
    /\ ln[4] \in {tok_Rx, tok_Tx}
    /\ \E m \in 5..(Len(ln) - 2) :
          /\ ln[m] \in {tok_d, tok_D}
          /\ \A j \in 5..(m - 1) : ln[j] \notin {tok_d, tok_D}
          /\ \/ ln[m + 1] = tok_1 /\ Len(ln) = m + 2
             \/ ln[m + 1] = tok_2 /\ Len(ln) = m + 3
          /\ \A j \in (m + 2)..Len(ln) : ln[j] \in {tok_00, tok_0A, tok_0B, tok_FF}

\* the line without its last token
WithoutLast(ln) == SubSeq(ln, 1, Len(ln) - 1)

\* the line the step reads
LineRead(ln) == pc = "reading" /\ pc' = "reading" /\ file' = Append(file, ln)

\* C11: the data string of every Can frame of the arena has byte_length tokens; and a
\* valid Can line of declared length L >= 1 without its last byte token inserts no
\* frame of any type and leaves frame_by_file_order as it is.
C11_ShortReadYieldsNoFrame ==
    /\ [](\A f \in ArenaFrames : f.ftype = "Can" => TokenCount(f.data) = f.byte_length)
    /\ [][\A ln \in DecodeLines :
             ValidCanLine(ln) /\ LineRead(WithoutLast(ln))
                 => frames' = frames /\ frame_by_file_order' = frame_by_file_order]_vars

\* a two-byte line was decoded and the same line short of one byte was read after it
C11_ShortLineRead ==
    /\ Len(file) >= 2
    /\ file[Len(file) - 1] = line_two
    /\ file[Len(file)] = line_two_short
    /\ frames.num_elems = 1
    /\ \E f \in ArenaFrames : f.ftype = "Can" /\ f.byte_length = 2 /\ TokenCount(f.data) = 2

\* ------------------------------------------------------------------- C12
\* the line starts with a timestamp, a Can channel of channel_map and an id
KnownCanHead(ln) ==
    /\ Len(ln) >= 3
    /\ IsSome(ParseF64(ln[1]))
    /\ ln[2] \in {tok_1, tok_3}
    /\ IsSome(parse_id_u32(ln[3]))

NonNumeric(tok) == \E i \in 1..Len(tok) : tok[i] \notin {"0", "1", "2", "3", "4", "5", "6", "7", "8", "9"}

\* (a) the direction is not Rx or Tx, (b) no data marker follows the direction, (c) the
\* token after the first marker is no number (or is missing)
MalformedCanLine(ln) ==
    /\ KnownCanHead(ln)
    /\ \/ Len(ln) >= 4 /\ ln[4] \notin {tok_Rx, tok_Tx}
       \/ \A m \in 5..Len(ln) : ln[m] \notin {tok_d, tok_D}
       \/ \E m \in 5..Len(ln) :
             /\ ln[m] \in {tok_d, tok_D}
             /\ \A j \in 5..(m - 1) : ln[j] \notin {tok_d, tok_D}
             /\ m < Len(ln) => NonNumeric(ln[m + 1])

InVec(vec, key) == \E i \in 1..Len(vec) : vec[i] = key

\* the step inserts one frame, an ErrorFrame without message and signals, under a new
\* key pushed to frame_by_file_order
OneErrorFrameInserted ==
    \E key \in sm_keys(frames') \ sm_keys(frames) :
        /\ sm_keys(frames') = sm_keys(frames) \cup {key}
        /\ \A k \in sm_keys(frames) : sm_get(frames', k) = sm_get(frames, k)
        /\ frame_by_file_order' = Append(frame_by_file_order, key)
        /\ Unwrap(sm_get(frames', key)).ftype = "ErrorFrame"
        /\ Unwrap(sm_get(frames', key)).sig_keys = <<>>
        /\ Unwrap(sm_get(frames', key)).msg_key = NullKey

\* C12: a line on a known Can channel with a parsable id and (a) a direction other than
\* Rx and Tx, (b) no data marker or (c) no numeric length after the marker inserts
\* exactly one ErrorFrame with no message and no signal; after the load the key of an
\* ErrorFrame is in frame_by_file_order and the three generic vectors and in none of
\* the frame_by_can_* and id_chn_* vectors.
C12_MalformedLineYieldsErrorFrame ==
    /\ [][\A ln \in DecodeLines :
             MalformedCanLine(ln) /\ LineRead(ln) => OneErrorFrameInserted]_vars
    /\ [](Loaded =>
            \A k \in sm_keys(frames) :
                Fr(k).ftype = "ErrorFrame" =>
                    /\ InVec(frame_by_file_order, k)
                    /\ \A n \in 1..3 : InVec(genericVecs[n], k)
                    /\ \A n \in 1..7 : ~InVec(canVecs[n], k)
                    /\ \A n \in 1..10 : ~InVec(idChnVecs[n], k))

\* a file with a line without marker and a decoded line was loaded
C12_ErrorFrameLoaded ==
    /\ Loaded
    /\ \E i, j \in 1..Len(file) : file[i] = line_no_marker /\ file[j] = line_two
    /\ \E k \in sm_keys(frames) : Fr(k).ftype = "ErrorFrame" /\ InVec(frame_by_timestamp, k)
    /\ Len(frame_by_can_data) = 1

\* ------------------------------------------------------------------- C13
\* the first token is no float, the second is no u8, or channel_map has no such channel
UnreadableHead(ln) ==
    \/ Len(ln) >= 1 /\ ParseF64(ln[1]) = None
    \/ Len(ln) >= 2 /\ FromStrRadix(ln[2], 10, U8_MAX) = None
    \/ Len(ln) >= 2 /\ FromStrRadix(ln[2], 10, U8_MAX) # None
                    /\ Unwrap(FromStrRadix(ln[2], 10, U8_MAX)) \notin DOMAIN channel_map

\* C13: a line whose first token is no float, whose second token is no u8 or whose
\* channel is no key of channel_map is dropped: the step that reads it inserts no
\* frame, changes no index vector and no signal series, and the load goes on without
\* an error.
C13_UnreadableHeadDropped ==
    [][\A ln \in DecodeLines :
         UnreadableHead(ln) /\ LineRead(ln)
             => /\ frames' = frames
                /\ indexVecs' = indexVecs
                /\ channel_map' = channel_map
                /\ result' = result /\ pc' = "reading"]_vars

\* a line on the unbound channel 9 was read after a decoded line, and the load ended
C13_UnboundChannelRead ==
    /\ Loaded
    /\ Len(file) >= 2
    /\ file[Len(file) - 1] = line_a
    /\ file[Len(file)] = line_channel_9
    /\ frames.num_elems = 1
    /\ Len(channel_map[1].database[1].sigs[1].raws) = 1

\* ------------------------------------------------------------------- C14
HexDigits == <<"0", "1", "2", "3", "4", "5", "6", "7", "8", "9", "A", "B", "C", "D", "E", "F">>
HexDigitsLower == <<"0", "1", "2", "3", "4", "5", "6", "7", "8", "9", "a", "b", "c", "d", "e", "f">>
IsHexDigit(c) == \E v \in 1..16 : c = HexDigits[v] \/ c = HexDigitsLower[v]
HexDigitOf(c) == (CHOOSE v \in 1..16 : c = HexDigits[v] \/ c = HexDigitsLower[v]) - 1

\* the value of a string of digits in a base, for values the checker can hold
RECURSIVE ValueIn(_, _)
ValueIn(s, base) ==
    IF s = <<>> THEN 0
    ELSE base * ValueIn(SubSeq(s, 1, Len(s) - 1), base) + HexDigitOf(s[Len(s)])

\* the token without the extended-id marker that may end it
IdDigits(tok) ==
    IF Len(tok) > 0 /\ tok[Len(tok)] \in {"x", "X"} THEN SubSeq(tok, 1, Len(tok) - 1) ELSE tok

\* hexadecimal digits, optionally followed by the marker
HexIdToken(tok) ==
    /\ Len(IdDigits(tok)) >= 1
    /\ \A i \in 1..Len(IdDigits(tok)) : IsHexDigit(IdDigits(tok)[i])

\* the hexadecimal value of the digits fits in 32 bits
HexFits(d) == \A i \in 1..(Len(d) - 8) : d[i] = "0"

\* the low 32 bits of the hexadecimal value of the digits, as a u32
HexValue(d) ==
    U32(ValueIn(SubSeq(d, Max(1, Len(d) - 7), Len(d) - 4), 16),
        ValueIn(SubSeq(d, Max(1, Len(d) - 3), Len(d)), 16))

\* the digits are decimal and their decimal value fits in 32 bits (at most 9 digits here)
DecFits(d) ==
    /\ Len(d) <= 9
    /\ \A i \in 1..Len(d) : HexDigitOf(d[i]) <= 9 /\ d[i] \notin {"a", "b", "c", "d", "e", "f"}

DecValue(d) == U32(ValueIn(d, 10) \div 65536, ValueIn(d, 10) % 65536)

\* the token is read in neither base: no digit, or a character that is no hex digit
NeitherBase(tok) ==
    /\ ~(Len(tok) >= 2 /\ tok[1] = "0" /\ tok[2] \in {"x", "X"})
    /\ \/ TrimEndX(tok) = <<>>
       \/ \E i \in 1..Len(TrimEndX(tok)) : ~IsHexDigit(TrimEndX(tok)[i])

\* the step reads a line with a timestamp and a Can channel of channel_map
CanLineRead(ln) ==
    /\ LineRead(ln)
    /\ Len(ln) >= 3
    /\ IsSome(ParseF64(ln[1]))
    /\ ln[2] \in {tok_1, tok_3}

\* the frame the step inserts, when it inserts one
Inserted == Len(frame_by_file_order') = Len(frame_by_file_order) + 1
NewFrame == Unwrap(sm_get(frames', frame_by_file_order'[Len(frame_by_file_order')]))

\* C14 as stated: the id stored for a token of hexadecimal digits, with or without the
\* marker, is the hexadecimal value of the digits.
C14_IdIsHexValue ==
    [][\A ln \in DecodeLines :
         CanLineRead(ln) /\ Inserted /\ HexIdToken(ln[3])
             => HexFits(IdDigits(ln[3])) /\ NewFrame.id = HexValue(IdDigits(ln[3]))]_vars

\* C14: the id stored for a token of hexadecimal digits, with or without the marker,
\* is the hexadecimal value of the digits when that value fits in 32 bits (bit 31 is
\* not set for the marker), and the decimal value of the digits when the hexadecimal
\* value does not fit and the digits are decimal; id_hex is the token as read; a token
\* read in neither base inserts no frame.
C14_IdIsHexValueWhenItFits ==
    [][\A ln \in DecodeLines :
         CanLineRead(ln) =>
             /\ NeitherBase(ln[3]) =>
                    frames' = frames /\ frame_by_file_order' = frame_by_file_order
             /\ Inserted => NewFrame.id_hex = ln[3]
             /\ Inserted /\ HexIdToken(ln[3]) /\ HexFits(IdDigits(ln[3]))
                    => NewFrame.id = HexValue(IdDigits(ln[3]))
             /\ Inserted /\ HexIdToken(ln[3]) /\ ~HexFits(IdDigits(ln[3]))
                        /\ DecFits(IdDigits(ln[3]))
                    => NewFrame.id = DecValue(IdDigits(ln[3]))]_vars

\* the ids 17334410x and 123456789 were decoded: the first as 0x17334410, the second
\* as the decimal 123456789 = 0x075BCD15
C14_MarkedAndDecimalIdsDecoded ==
    /\ \E f \in ArenaFrames :
          f.id_hex = tok_17334410x /\ f.id = U32(5939, 17424) /\ f.ftype = "Can"
    /\ \E f \in ArenaFrames :
          f.id_hex = tok_123456789 /\ f.id = U32(1883, 52501) /\ f.ftype = "Can"

\* ------------------------------------------------------------------- C15
\* the id with bit 31 set
WithBit31(id) == U32(IF id.hi >= 32768 THEN id.hi ELSE id.hi + 32768, id.lo)

\* the ids a database registers messages under
Registered(db) == DOMAIN db.msg_key_by_id

\* the frame holds the message registered under the id: its key, its first sender node
\* if it has one, and all its signal keys
HoldsMessage(f, db, id) ==
    /\ f.msg_key = db.msg_key_by_id[id]
    /\ f.tx_node_key = IF db.messages[f.msg_key].sender_nodes = <<>> THEN NullKey
                       ELSE db.messages[f.msg_key].sender_nodes[1]
    /\ f.sig_keys = db.messages[f.msg_key].signals

HoldsNoMessage(f) == f.msg_key = NullKey /\ f.tx_node_key = NullKey /\ f.sig_keys = <<>>

ResolvedAsStated(f, db) ==
    IF f.id \in Registered(db) THEN HoldsMessage(f, db, f.id)
    ELSE IF (f.id.hi > 0 \/ f.id.lo > 2047) /\ WithBit31(f.id) \in Registered(db)
    THEN HoldsMessage(f, db, WithBit31(f.id))
    ELSE HoldsNoMessage(f)

\* C15: a Can frame of id I holds the message its channel's database registers under
\* I; if there is none and I > 0x7FF, the message registered under I with bit 31 set;
\* with the message it holds the first sender node, if any, and all the signal keys;
\* otherwise (no database, no message, or I <= 0x7FF with only a bit-31 entry) the
\* message key, the node key and the signal keys stay empty.
C15_MessageResolution ==
    \A f \in ArenaFrames :
        f.ftype = "Can" =>
            IF channel_map[f.channel].database = None THEN HoldsNoMessage(f)
            ELSE ResolvedAsStated(f, Unwrap(channel_map[f.channel].database))

\* id 0x800 was resolved through the entry 0x80000800 and id 0x300 was left unresolved
\* beside the entry 0x80000300
C15_ResolvedThroughBit31 ==
    /\ \E f \in ArenaFrames :
          f.ftype = "Can" /\ f.id = U32(0, 2048) /\ f.msg_key = 3 /\ f.sig_keys = <<1>>
    /\ \E f \in ArenaFrames :
          f.ftype = "Can" /\ f.id = U32(0, 768) /\ f.channel = 1 /\ f.msg_key = NullKey

\* ------------------------------------------------------------------- C16
\* the channels with a database, and the signals of a channel's database
BoundChannels == {ch \in DOMAIN channel_map : channel_map[ch].database # None}
SignalsOf(ch) == DOMAIN Unwrap(channel_map[ch].database).sigs
Series(cm, ch, sig) == Unwrap(cm[ch].database).sigs[sig]

\* the frames of the arena that refer to the signal
FramesOf(ch, sig) ==
    {k \in sm_keys(frames) : Fr(k).channel = ch /\ InVec(Fr(k).sig_keys, sig)}

\* the lines of a file that decode to a frame with a signal: those of message 0x100
\* on channel 1, the one message with a signal among the lines of Lines
SignalLines(f) == {i \in 1..Len(f) : f[i] \in {line_a, line_b}}

\* the frames inserted so far, in the first call of from_asc_file and in the second
\* call after a first that returned Ok
InFirstLoad == nloads = 1 /\ result \in {"running", "Ok", "Read"}
InSecondLoad == nloads = 2 /\ prev # None /\ result \in {"running", "Ok", "Read"}

\* the step appends one point to raws and one to values, at the frame's timestamp,
\* the value being raw * factor + offset
OnePointAppended(old, new, f) ==
    /\ Len(new.raws) = Len(old.raws) + 1
    /\ Len(new.values) = Len(old.values) + 1
    /\ SubSeq(new.raws, 1, Len(old.raws)) = old.raws
    /\ SubSeq(new.values, 1, Len(old.values)) = old.values
    /\ new.raws[Len(new.raws)][1] = f.timestamp
    /\ new.values[Len(new.values)] =
           <<f.timestamp, new.raws[Len(new.raws)][2] * old.factor + old.offset>>

\* C16: raws and values of a signal have the same length, the number of frames
\* inserted so far, over all loads, whose sig_keys hold the signal; the insertion of
\* such a frame appends one (timestamp, raw) and one (timestamp, raw * factor +
\* offset); every other step, the clear of a reload included, leaves the series as
\* they are.
C16_OnePointPerFrame ==
    /\ [](\A ch \in BoundChannels : \A sig \in SignalsOf(ch) :
            /\ Len(Series(channel_map, ch, sig).raws) = Len(Series(channel_map, ch, sig).values)
            /\ InFirstLoad =>
                   Len(Series(channel_map, ch, sig).raws) = Cardinality(FramesOf(ch, sig))
            /\ InSecondLoad =>
                   Len(Series(channel_map, ch, sig).raws) =
                       Cardinality(SignalLines(Unwrap(prev).file)) + Cardinality(FramesOf(ch, sig)))
    /\ [][\A ch \in BoundChannels : \A sig \in SignalsOf(ch) :
             IF Inserted /\ NewFrame.channel = ch /\ InVec(NewFrame.sig_keys, sig)
             THEN OnePointAppended(Series(channel_map, ch, sig), Series(channel_map', ch, sig),
                                   NewFrame)
             ELSE Series(channel_map', ch, sig) = Series(channel_map, ch, sig)]_vars

\* the second load of a Log, after a load that appended a point, appended another
C16_PointsOfTwoLoads ==
    /\ InSecondLoad
    /\ Cardinality(SignalLines(Unwrap(prev).file)) >= 1
    /\ Cardinality(FramesOf(1, 1)) = 1
    /\ Len(Series(channel_map, 1, 1).raws) >= 2

\* ------------------------------------------------------------------- C17
AllEmpty(vecs) == \A n \in 1..Len(vecs) : vecs[n] = <<>>

\* C17: when a read fails while the file is streamed, the call returns the Read error
\* without rollback: the frames decoded before the failure stay in the arena and in
\* frame_by_file_order, and the index builder has not run, so the 20 sorted vectors
\* are empty.
C17_ReadErrorKeepsFrames ==
    /\ [][pc = "reading" /\ result' = "Read"
             => /\ pc' = "idle"
                /\ frames' = frames
                /\ frame_by_file_order' = frame_by_file_order
                /\ AllEmpty(sortedVecs')]_vars
    /\ [](pc = "idle" /\ result = "Read"
             => /\ Range(frame_by_file_order) = sm_keys(frames)
                /\ frames.num_elems = Len(frame_by_file_order)
                /\ AllEmpty(sortedVecs))

\* a read failed after two frames were decoded
C17_ReadFailedAfterTwoFrames ==
    /\ pc = "idle" /\ result = "Read"
    /\ Len(frame_by_file_order) >= 2
    /\ \E k \in sm_keys(frames) : Fr(k).ftype = "Can"
    /\ frame_by_timestamp = <<>>

\* ------------------------------------------------------------------- C18
\* C18: while the lines are streamed the 20 sorted vectors stay empty and, of the
\* arena and the index vectors, only the arena and frame_by_file_order change; the
\* sorted vectors are written once per load, by the step that ends the stream with Ok,
\* and are otherwise only emptied by clear_frames.
C18_IndexesBuiltInOneBatch ==
    /\ [](pc = "reading" => AllEmpty(sortedVecs))
    /\ [][pc = "reading" /\ pc' = "reading" => sortedVecs' = sortedVecs]_vars
    /\ [][sortedVecs' # sortedVecs
             => \/ pc = "reading" /\ pc' = "idle" /\ result' = "Ok"
                           /\ frame_by_file_order' = frame_by_file_order
                           /\ frames' = frames
                \/ pc = "idle" /\ AllEmpty(sortedVecs')]_vars
    /\ [][pc = "reading" /\ result' = "Ok"
             => \A n \in 1..3 : Len(genericVecs'[n]) = Len(frame_by_file_order)]_vars

\* the second load of a Log whose first load filled the sorted vectors has decoded a
\* frame
C18_StreamingAfterLoadedLog ==
    /\ pc = "reading"
    /\ prev # None
    /\ Len(Unwrap(prev).vecs[2]) >= 2
    /\ Len(frame_by_file_order) >= 1
    /\ frame_by_timestamp = <<>>

\* ------------------------------------------------------------------- C19
\* a number below 100 in two digits, a number below 1000 in three, a year in four
TwoDigits(v) == <<HexDigits[(v \div 10) + 1], HexDigits[(v % 10) + 1]>>
ThreeDigits(v) == <<HexDigits[(v \div 100) + 1]>> \o TwoDigits(v % 100)
FourDigits(v) == TwoDigits(v \div 100) \o TwoDigits(v % 100)

\* HH:MM:SS.mmm of a number of milliseconds below 100 hours
ClockText(m) ==
    TwoDigits(m \div 3600000) \o <<":">> \o TwoDigits((m % 3600000) \div 60000) \o <<":">>
    \o TwoDigits((m % 60000) \div 1000) \o <<".">> \o ThreeDigits(m % 1000)

\* YYYY-MM-DD of a date
DateText(y, mo, d) == FourDigits(y) \o <<"-">> \o TwoDigits(mo) \o <<"-">> \o TwoDigits(d)

\* the days of the months of a year that is no leap year
MonthLength == <<31, 28, 31, 30, 31, 30, 31, 31, 30, 31, 30, 31>>

\* a start time (of a year that is no leap year) plus m milliseconds, less than a day
StartPlus(start, m) ==
    IF start.ms + m < 86400000
    THEN DateText(start.year, start.month, start.day) \o <<" ">> \o ClockText(start.ms + m)
    ELSE (IF start.day < MonthLength[start.month]
          THEN DateText(start.year, start.month, start.day + 1)
          ELSE IF start.month < 12 THEN DateText(start.year, start.month + 1, 1)
          ELSE DateText(start.year + 1, 1, 1))
         \o <<" ">> \o ClockText(start.ms + m - 86400000)

\* round(t * 1000) of a timestamp t >= 0 that is a number
Millis(t) == (t.us + 500) \div 1000

\* C19: with no start time a decoded frame of timestamp t, m = round(t * 1000), has the
\* absolute_time "2025-01-01 HH:MM:SS.mmm" with HH = m div 3600000, MM = (m mod
\* 3600000) div 60000, SS = (m mod 60000) div 1000 and mmm = m mod 1000; with a start
\* time it has the start time plus m milliseconds as "YYYY-MM-DD HH:MM:SS.mmm".
C19_AbsoluteTimeText ==
    \A f \in ArenaFrames :
        f.ftype = "Can" /\ ~f.timestamp.nan =>
            f.absolute_time =
                IF absolute_time.value = None
                THEN <<"2", "0", "2", "5", "-", "0", "1", "-", "0", "1", " ">>
                     \o ClockText(Millis(f.timestamp))
                ELSE StartPlus(Unwrap(absolute_time.value), Millis(f.timestamp))

\* with no start time, a frame of timestamp 65.5 has the text that ends in 01:05.500
C19_FallbackOfSixtyFiveSeconds ==
    /\ absolute_time.value = None
    /\ \E f \in ArenaFrames :
          /\ f.ftype = "Can"
          /\ f.timestamp = Finite(65500000)
          /\ f.absolute_time = <<"2", "0", "2", "5", "-", "0", "1", "-", "0", "1", " ",
                                 "0", "0", ":", "0", "1", ":", "0", "5", ".", "5", "0", "0">>

\* ------------------------------------------------------------------- C20
\* from_file has returned Ok(log)
AscReturned == asc_pc = "idle" /\ asc_result = "Ok"

\* the numeric id of an id token: the hexadecimal value of its digits
NumericId(tok) ==
    IF HexIdToken(tok) /\ HexFits(IdDigits(tok)) THEN Some(HexValue(IdDigits(tok))) ELSE None

\* the indices (from 0) of the parsed frames that have a numeric id, and the pair of one
AscFrame(idx) == log.can_frames[idx + 1]
AscIdToken(idx) == log.messages[AscFrame(idx).message + 1].id
Keyed == {idx \in 0..(Len(log.can_frames) - 1) : NumericId(AscIdToken(idx)) # None}
AscPair(idx) == <<Unwrap(NumericId(AscIdToken(idx))), AscFrame(idx).channel>>

\* C20: the last_id_chn_frame that from_file returns holds one index for each (numeric
\* id, channel) pair of the parsed frames and no other, and the frame of that index has
\* the largest of the timestamps of the frames of its pair, whatever their order in the
\* file.
C20_LatestFramePerPair ==
    AscReturned =>
        /\ NoDuplicates(log.last_id_chn_frame)
        /\ Range(log.last_id_chn_frame) \subseteq Keyed
        /\ \A idx \in Keyed :
              \E n \in 1..Len(log.last_id_chn_frame) :
                  /\ AscPair(log.last_id_chn_frame[n]) = AscPair(idx)
                  /\ \A h \in 1..Len(log.last_id_chn_frame) :
                        AscPair(log.last_id_chn_frame[h]) = AscPair(idx) => h = n
                  /\ ~AscFrame(idx).timestamp.nan =>
                        /\ ~AscFrame(log.last_id_chn_frame[n]).timestamp.nan
                        /\ AscFrame(log.last_id_chn_frame[n]).timestamp.us
                               >= AscFrame(idx).timestamp.us

\* ------------------------------------------------------------------- C21
\* the orders of the sort keys, on frames; a timestamp that is no number is in no order
TimestampLeq(f, g) == f.timestamp.nan \/ g.timestamp.nan \/ f.timestamp.us <= g.timestamp.us
ChannelLeq(f, g) == f.channel < g.channel \/ (f.channel = g.channel /\ TimestampLeq(f, g))
DirectionLeq(f, g) ==
    \/ f.direction = "Rx" /\ g.direction = "Tx"
    \/ f.direction = g.direction /\ TimestampLeq(f, g)
IdLeq(f, g) == f.id.hi < g.id.hi \/ (f.id.hi = g.id.hi /\ f.id.lo <= g.id.lo)
DlcLeq(f, g) == f.byte_length <= g.byte_length
ProtocolLeq(f, g) ==
    \/ f.byte_length <= 8 /\ g.byte_length > 8
    \/ (f.byte_length <= 8) = (g.byte_length <= 8) /\ f.byte_length <= g.byte_length

\* the lexicographic order of strings, by byte
RECURSIVE StrLeq(_, _)
StrLeq(a, b) ==
    IF a = <<>> THEN TRUE
    ELSE IF b = <<>> THEN FALSE
    ELSE IF Byte(a[1]) # Byte(b[1]) THEN Byte(a[1]) < Byte(b[1])
    ELSE StrLeq(Tail(a), Tail(b))
DataLeq(f, g) == StrLeq(f.data, g.data)

\* the pairs of positions of a vector, the first before the second
Before(vec) == {p \in (1..Len(vec)) \X (1..Len(vec)) : p[1] < p[2]}

\* C21: after a successful load frame_by_timestamp is non-decreasing in timestamp,
\* frame_by_channel in (channel, timestamp), frame_by_direction in (Rx before Tx,
\* timestamp), frame_by_can_msg_id in id, frame_by_can_dlc in byte_length,
\* frame_by_can_protocol in (byte_length <= 8 first, byte_length), frame_by_can_data in
\* the payload text, and so are their id_chn_* counterparts.
C21_VectorsSortedByKey ==
    Loaded =>
        /\ \A v \in {frame_by_timestamp, id_chn_by_timestamp} :
              \A p \in Before(v) : TimestampLeq(Fr(v[p[1]]), Fr(v[p[2]]))
        /\ \A v \in {frame_by_channel, id_chn_by_channel} :
              \A p \in Before(v) : ChannelLeq(Fr(v[p[1]]), Fr(v[p[2]]))
        /\ \A v \in {frame_by_direction, id_chn_by_direction} :
              \A p \in Before(v) : DirectionLeq(Fr(v[p[1]]), Fr(v[p[2]]))
        /\ \A v \in {frame_by_can_msg_id, id_chn_by_can_msg_id} :
              \A p \in Before(v) : IdLeq(Fr(v[p[1]]), Fr(v[p[2]]))
        /\ \A v \in {frame_by_can_dlc, id_chn_by_can_dlc} :
              \A p \in Before(v) : DlcLeq(Fr(v[p[1]]), Fr(v[p[2]]))
        /\ \A v \in {frame_by_can_protocol, id_chn_by_can_protocol} :
              \A p \in Before(v) : ProtocolLeq(Fr(v[p[1]]), Fr(v[p[2]]))
        /\ \A v \in {frame_by_can_data, id_chn_by_can_data} :
              \A p \in Before(v) : DataLeq(Fr(v[p[1]]), Fr(v[p[2]]))

\* ------------------------------------------------------------------- C22
\* the frame the step inserts is that of the line: its timestamp and channel are those
\* of the line's first two tokens
FrameOfLine(f, ln) ==
    /\ Len(ln) >= 2
    /\ ParseF64(ln[1]) = Some(f.timestamp)
    /\ FromStrRadix(ln[2], 10, U8_MAX) = Some(f.channel)

C23_BuffersOnlyGrow ==
    [][pc = "reading" /\ pc' = "reading"
         => /\ parser'.data_buf.cap >= parser.data_buf.cap
            /\ parser'.payload_buf.cap >= parser.payload_buf.cap]_vars

\* ------------------------------------------------------------------ C24
\* every key of the vector resolves to a frame of the arena
Resolves(vec) == \A i \in 1..Len(vec) : IsSome(sm_get(frames, vec[i]))

\* C24: in every reachable state (during a load, after a load that returned Ok or an
\* error, after clear_frames) every key of each of the 21 index vectors resolves to a
\* frame of the arena, frame_by_file_order holds each key of the arena exactly once,
\* and the arena holds as many frames as frame_by_file_order has keys.
C24_IndexesAgreeWithArena ==
    /\ \A v \in 1..Len(indexVecs) : Resolves(indexVecs[v])
    /\ NoDuplicates(frame_by_file_order)
    /\ Range(frame_by_file_order) = sm_keys(frames)
    /\ frames.num_elems = Len(frame_by_file_order)
    /\ Cardinality(sm_keys(frames)) = frames.num_elems

\* a second load ended with Ok: its two frames took the slots that the clear of the
\* first load's frames had freed, and every sorted vector of all frames lists both
C24_ReloadedIntoFreedSlots ==
    /\ Loaded
    /\ nloads = 2
    /\ Len(frame_by_file_order) = 2
    /\ \A i \in 1..2 : frame_by_file_order[i].version = 3
    /\ \A v \in 1..Len(genericVecs) : Len(genericVecs[v]) = 2
\* ------------------------------------------------------------------ C25
\* C25: after every load that returned Ok the ordering by protocol class and the
\* ordering by byte length coincide: frame_by_can_protocol is frame_by_can_dlc and
\* id_chn_by_can_protocol is id_chn_by_can_dlc, whatever the frames.
C25_ProtocolOrderIsDlcOrder ==
    Loaded => /\ frame_by_can_protocol = frame_by_can_dlc
              /\ id_chn_by_can_protocol = id_chn_by_can_dlc

\* a load of a 9-byte frame followed by a shorter frame of another message: both
\* orderings put the shorter frame, read second, first
C25_LongFrameReadFirst ==
    /\ Loaded
    /\ Len(frame_by_file_order) = 2
    /\ Fr(frame_by_file_order[1]).byte_length = 9
    /\ Fr(frame_by_file_order[2]).byte_length <= 8
    /\ Fr(frame_by_file_order[2]).ftype = "Can"
    /\ frame_by_can_dlc = <<frame_by_file_order[2], frame_by_file_order[1]>>
    /\ id_chn_by_can_protocol = <<frame_by_file_order[2], frame_by_file_order[1]>>
====
